---- MODULE Spec2Model ----
(***************************************************************************)
(* A model of the BDD demo's test runner (bdd-demo/app/behave_runner.py)   *)
(* and of the helpers it uses (bdd-demo/app/utils.py).                     *)
(*                                                                         *)
(* Conventions for the Python values:                                      *)
(*   - a dict is a record; an optional key is a field that is or is not in *)
(*     the record's DOMAIN;                                                *)
(*   - a list is a sequence;                                               *)
(*   - a value that may be None (or an empty dict) is a set with at most   *)
(*     one element: {} is None, {v} is v;                                  *)
(*   - a time is a number of seconds; a percentage rounded to 2 decimals   *)
(*     is a number of hundredths of a percent (50.0 is 5000).              *)
(***************************************************************************)
EXTENDS Integers, Sequences, FiniteSets, TLC

VARIABLES
    reports,    \* the files of the reports directory: file name -> content
    metadata,   \* BehaveRunner.metadata, a TestMetadata
    ret,        \* what the last operation returned: {} before any call
    call,       \* the last operation called: see NoCall
    calls,      \* how many operations have been called
    launched,   \* how many behave subprocesses have run
    now,        \* the wall clock, in seconds
    files,      \* the files outside the reports directory: path -> content
    tables,     \* the database: table name -> the rows of the table
    connection, \* DatabaseManager.connection of the manager in use: {} is None
    SAMPLE_CLIENTS, \* the mock API's module-level list of client records
    input,      \* the argument being prepared for the next call
    driver,     \* SeleniumUITester.driver of the tester in use: {} is None
    sessions,   \* the browser sessions started so far, each with its state
    context,    \* behave's context: attribute name -> value
    processes   \* the server processes spawned so far, each with its state

\* What the test runner never touches: the data quality documents, the
\* database, and the mock API, which runs in a process of its own.
\* The test suite that behave runs: the browser and the hooks' server.
suite == <<driver, sessions, context, processes>>

others == <<files, tables, connection, SAMPLE_CLIENTS, input, suite>>

vars == <<reports, metadata, ret, call, calls, launched, now, others>>

(***************************************************************************)
(* Bounds of the model.                                                    *)
(***************************************************************************)
\* The size of a Cucumber report: its features, elements and steps together.
MaxReportSize == 8
\* The steps of the scenario of SpecScenario.
MaxSteps == 4
\* How many run operations a behaviour holds.
MaxRuns == 2
\* The last second of the clock.
MaxClock == 2

(***************************************************************************)
(* Cucumber JSON reports, as behave's JSON formatter writes them: a list   *)
(* of features, each with a list of elements, each with a list of steps.   *)
(* A step's result may be missing (a step that never ran).                 *)
(***************************************************************************)
RawStatuses == {"passed", "failed", "skipped", "undefined"}

StepWith(s) == [result |-> {[status |-> s]}]
StepWithoutResult == [result |-> {}]

\* Every kind of step, and the kinds the reports of SpecParse are made of.
Steps == {StepWithoutResult} \cup {StepWith(s) : s \in RawStatuses}
ReportSteps == {StepWith("passed"), StepWith("failed"), StepWith("skipped")}

Backgrounds == {[type |-> "background", steps |-> <<>>]}
NewScenario == [type |-> "scenario", steps |-> <<>>]
NewFeature == [name |-> "Feature", elements |-> <<>>]

\* The size of a report: its features, elements and steps together.
RECURSIVE SumLen(_, _)
SumLen(seq, field) ==
    IF seq = <<>> THEN 0 ELSE Len(Head(seq)[field]) + SumLen(Tail(seq), field)

RECURSIVE ReportSize(_)
ReportSize(r) ==
    IF r = <<>> THEN 0
    ELSE 1 + Len(Head(r).elements) + SumLen(Head(r).elements, "steps")
         + ReportSize(Tail(r))

\* The formatter's writes: a new feature, a new element in the last feature,
\* a new step in the last element.
AddFeature(r) == Append(r, NewFeature)
AddElement(r, e) == [r EXCEPT ![Len(r)].elements = Append(@, e)]
AddStep(r, step) ==
    [r EXCEPT ![Len(r)].elements =
        [@ EXCEPT ![Len(@)].steps = Append(@, step)]]

LastElementIsScenario(r) ==
    /\ r # <<>>
    /\ r[Len(r)].elements # <<>>
    /\ r[Len(r)].elements[Len(r[Len(r)].elements)].type = "scenario"

(***************************************************************************)
(* The content of a file: text that json.load rejects, a JSON list (a      *)
(* Cucumber report), a JSON object, or something that is not JSON at all   *)
(* (the JUnit XML).                                                        *)
(***************************************************************************)
Malformed == [parses |-> FALSE]
JsonList(l) == [parses |-> TRUE, list |-> l]
JsonObject(o) == [parses |-> TRUE, object |-> o]
JunitXml == [parses |-> FALSE, xml |-> TRUE]

\* A report file holding a JSON object where the list of features should be.
WrongShape == JsonObject([features |-> <<>>])

(***************************************************************************)
(* Times as text: datetime.now().strftime("%Y%m%d_%H%M%S") and             *)
(* datetime.now().isoformat().                                             *)
(***************************************************************************)
Strftime(t) == [format |-> "%Y%m%d_%H%M%S", seconds |-> t]
IsoFormat(t) == [format |-> "iso", seconds |-> t]

(***************************************************************************)
(* File names of the reports directory.                                    *)
(***************************************************************************)
\* f"cucumber_report_{timestamp}.json" (feature = {}) and
\* f"cucumber_report_{feature_file}_{timestamp}.json" (feature = {f}).
CucumberJsonFile(feature, timestamp) ==
    [prefix |-> "cucumber_report", feature |-> feature, timestamp |-> timestamp,
     ext |-> "json"]

JunitXmlFile(timestamp) ==
    [prefix |-> "junit_report", feature |-> {}, timestamp |-> timestamp, ext |-> "xml"]

MetadataFile(timestamp) ==
    [prefix |-> "test_metadata", feature |-> {}, timestamp |-> timestamp,
     ext |-> "json"]

\* os.path.exists, and writing a file (creating or overwriting it).
PathExists(fs, name) == name \in DOMAIN fs
WriteFile(fs, name, content) ==
    [n \in DOMAIN fs \cup {name} |-> IF n = name THEN content ELSE fs[n]]

(***************************************************************************)
(* utils.py: durations and TestMetadata.                                   *)
(***************************************************************************)
\* format_test_duration: "<m>m <s>s" when at least a minute, else "<s>s".
format_test_duration(start_time, end_time) ==
    LET total_seconds == end_time - start_time
        minutes == total_seconds \div 60
        seconds == total_seconds % 60
    IN  IF minutes > 0 THEN [minutes |-> minutes, seconds |-> seconds]
        ELSE [seconds |-> seconds]

InProgress == [in_progress |-> TRUE]

\* TestMetadata(): started now, not complete, no results.
TestMetadata(t) == [start_time |-> t, end_time |-> {}, test_results |-> {}]

mark_complete(m, t) == [m EXCEPT !.end_time = {t}]

get_duration(m) ==
    IF m.end_time # {}
    THEN format_test_duration(m.start_time, CHOOSE t \in m.end_time : TRUE)
    ELSE InProgress

\* get_commit_hash(): the short hash of HEAD.
CommitHash == {"a1b2c3d"}

to_dict(m) ==
    [start_time |-> IsoFormat(m.start_time),
     end_time |-> {IsoFormat(t) : t \in m.end_time},
     duration |-> get_duration(m),
     commit_hash |-> CommitHash,
     test_results |-> m.test_results]

\* save_json_file: the file written; or, when open() fails, nothing; or, when
\* the write fails after open() has truncated the file, a file cut short. The
\* exception is caught and False returned, which no caller of the runner reads.
save_json_file(fs, data, filepath, io) ==
    IF io = "ok" THEN WriteFile(fs, filepath, JsonObject(data))
    ELSE IF io = "write fails" THEN WriteFile(fs, filepath, Malformed)
    ELSE fs

IoOutcomes == {"ok", "open fails", "write fails"}

(***************************************************************************)
(* BehaveRunner._parse_scenario                                            *)
(***************************************************************************)
\* step.get('result', {}).get('status', 'unknown')
StepStatus(step) ==
    IF step.result = {} THEN "unknown" ELSE (CHOOSE r \in step.result : TRUE).status

\* The scenario_info and the all_steps_passed flag before the loop. Names,
\* tags, locations and durations are copied from the report and decide
\* nothing: they are left out. A missing 'steps' or 'elements' key reads as the
\* empty list (.get(key, [])), which the empty sequence stands for.
ScenarioStart(feature_name) ==
    [info |-> [feature_name |-> feature_name, status |-> "unknown",
               total_steps |-> 0, passed_steps |-> 0, failed_steps |-> 0,
               skipped_steps |-> 0, steps |-> <<>>],
     all_steps_passed |-> TRUE]

\* ScenarioStep with the flag left alone by a step that is neither passed nor
\* failed.
ScenarioStepKeepsFlag(acc, step) ==
    LET step_status == StepStatus(step)
        i == acc.info
        counted == [i EXCEPT !.steps = Append(@, [status |-> step_status]),
                             !.total_steps = @ + 1]
    IN  IF step_status = "passed"
        THEN [info |-> [counted EXCEPT !.passed_steps = @ + 1],
              all_steps_passed |-> acc.all_steps_passed]
        ELSE IF step_status = "failed"
        THEN [info |-> [counted EXCEPT !.failed_steps = @ + 1],
              all_steps_passed |-> FALSE]
        ELSE [info |-> [counted EXCEPT !.skipped_steps = @ + 1],
              all_steps_passed |-> acc.all_steps_passed]

\* One iteration of the loop over the steps.
ScenarioStep(acc, step) ==
    LET step_status == StepStatus(step)
        i == acc.info
        counted == [i EXCEPT !.steps = Append(@, [status |-> step_status]),
                             !.total_steps = @ + 1]
    IN  IF step_status = "passed"
        THEN [info |-> [counted EXCEPT !.passed_steps = @ + 1],
              all_steps_passed |-> acc.all_steps_passed]
        ELSE IF step_status = "failed"
        THEN [info |-> [counted EXCEPT !.failed_steps = @ + 1],
              all_steps_passed |-> FALSE]
        ELSE [info |-> [counted EXCEPT !.skipped_steps = @ + 1],
              all_steps_passed |-> FALSE]

RECURSIVE ScenarioLoop(_, _)
ScenarioLoop(acc, steps) ==
    IF steps = <<>> THEN acc
    ELSE ScenarioLoop(ScenarioStep(acc, Head(steps)), Tail(steps))

\* ScenarioStatus asking for skipped steps before failed ones.
ScenarioStatusSkippedFirst(acc) ==
    IF acc.all_steps_passed /\ acc.info.total_steps > 0 THEN "passed"
    ELSE IF acc.info.skipped_steps > 0 THEN "skipped"
    ELSE IF acc.info.failed_steps > 0 THEN "failed"
    ELSE "skipped"

\* ScenarioStatus without the test that the scenario has a step.
ScenarioStatusNoStepTest(acc) ==
    IF acc.all_steps_passed THEN "passed"
    ELSE IF acc.info.failed_steps > 0 THEN "failed"
    ELSE "skipped"

\* The overall status, decided after the loop.
ScenarioStatus(acc) ==
    IF acc.all_steps_passed /\ acc.info.total_steps > 0 THEN "passed"
    ELSE IF acc.info.failed_steps > 0 THEN "failed"
    ELSE "skipped"

parse_scenario(scenario_element, feature_name) ==
    LET acc == ScenarioLoop(ScenarioStart(feature_name), scenario_element.steps)
    IN  [acc.info EXCEPT !.status = ScenarioStatus(acc)]

(***************************************************************************)
(* BehaveRunner._parse_behave_results                                      *)
(***************************************************************************)
ZeroStatistics ==
    [total_scenarios |-> 0, passed_scenarios |-> 0, failed_scenarios |-> 0,
     skipped_scenarios |-> 0, total_steps |-> 0, passed_steps |-> 0,
     failed_steps |-> 0, skipped_steps |-> 0]

\* The basic execution info, before the report is read.
BasicResult(subprocess_result, duration, cucumber_json_file, junit_xml_file, timestamp, feature_file) ==
    [success |-> subprocess_result.returncode = 0,
     return_code |-> subprocess_result.returncode,
     stdout |-> subprocess_result.stdout,
     stderr |-> subprocess_result.stderr,
     execution_time |-> duration,
     timestamp |-> timestamp,
     cucumber_json_file |-> cucumber_json_file,
     junit_xml_file |-> junit_xml_file,
     feature_file |-> feature_file,
     scenarios |-> <<>>,
     statistics |-> ZeroStatistics]

\* UpdateStatistics without the final else: a scenario that neither passed nor
\* failed is counted in the total alone.
UpdateStatisticsNoElse(st, scenario_info) ==
    LET t == [st EXCEPT !.total_scenarios = @ + 1,
                        !.total_steps = @ + scenario_info.total_steps,
                        !.passed_steps = @ + scenario_info.passed_steps,
                        !.failed_steps = @ + scenario_info.failed_steps,
                        !.skipped_steps = @ + scenario_info.skipped_steps]
    IN  IF scenario_info.status = "passed"
        THEN [t EXCEPT !.passed_scenarios = @ + 1]
        ELSE IF scenario_info.status = "failed"
        THEN [t EXCEPT !.failed_scenarios = @ + 1]
        ELSE t

\* "Update statistics" and "Step statistics" for one parsed scenario.
UpdateStatistics(st, scenario_info) ==
    LET t == [st EXCEPT !.total_scenarios = @ + 1,
                        !.total_steps = @ + scenario_info.total_steps,
                        !.passed_steps = @ + scenario_info.passed_steps,
                        !.failed_steps = @ + scenario_info.failed_steps,
                        !.skipped_steps = @ + scenario_info.skipped_steps]
    IN  IF scenario_info.status = "passed"
        THEN [t EXCEPT !.passed_scenarios = @ + 1]
        ELSE IF scenario_info.status = "failed"
        THEN [t EXCEPT !.failed_scenarios = @ + 1]
        ELSE [t EXCEPT !.skipped_scenarios = @ + 1]

\* The loop over one feature's elements.
RECURSIVE ElementLoop(_, _, _)
ElementLoop(er, elements, feature_name) ==
    IF elements = <<>> THEN er
    ELSE LET element == Head(elements)
             scenario_info == parse_scenario(element, feature_name)
             next == IF element.type = "scenario"
                     THEN [er EXCEPT !.scenarios = Append(@, scenario_info),
                                     !.statistics = UpdateStatistics(@, scenario_info)]
                     ELSE er
         IN  ElementLoop(next, Tail(elements), feature_name)

\* The loop over the report's features.
RECURSIVE FeatureLoop(_, _)
FeatureLoop(er, cucumber_data) ==
    IF cucumber_data = <<>> THEN er
    ELSE LET feature == Head(cucumber_data)
         IN  FeatureLoop(ElementLoop(er, feature.elements, feature.name),
                         Tail(cucumber_data))

\* Round2 cutting the digits after the second decimal instead of rounding.
Round2Truncating(passed, total) == (passed * 10000) \div total

\* round(x, 2) of x = passed / total * 100, in hundredths: to the nearest
\* hundredth, a tie going to the even one.
Round2(passed, total) ==
    LET q == (passed * 10000) \div total
        r == (passed * 10000) % total
    IN  IF 2 * r < total THEN q
        ELSE IF 2 * r > total THEN q + 1
        ELSE IF q % 2 = 0 THEN q ELSE q + 1

\* SuccessRate taken over the steps instead of the scenarios.
SuccessRateOfSteps(st) ==
    IF st.total_steps > 0
    THEN Round2(st.passed_steps, st.total_steps)
    ELSE 0

\* "Calculate success rate"
SuccessRate(st) ==
    IF st.total_scenarios > 0
    THEN Round2(st.passed_scenarios, st.total_scenarios)
    ELSE 0

\* The dictionary the outer handler returns.
ParsingErrorResult(subprocess_result, duration, timestamp) ==
    [success |-> FALSE,
     error |-> "Result parsing error",
     return_code |-> subprocess_result.returncode,
     execution_time |-> duration,
     timestamp |-> timestamp]

\* JsonDecodeError without a handler of its own: the error reaches the outer
\* handler, which drops the basic info.
JsonDecodeErrorUncaught(basic) ==
    [success |-> FALSE,
     error |-> "Result parsing error",
     return_code |-> basic.return_code,
     execution_time |-> basic.execution_time,
     timestamp |-> basic.timestamp]

\* The inner handler: json.JSONDecodeError becomes a field of the result.
JsonDecodeError(basic) == basic @@ [json_parse_error |-> "JSONDecodeError"]

parse_behave_results(fs, m, subprocess_result, cucumber_json_file, junit_xml_file, timestamp, feature_file) ==
    LET basic == BasicResult(subprocess_result, get_duration(m), cucumber_json_file,
                             junit_xml_file, timestamp, feature_file)
    IN  IF ~PathExists(fs, cucumber_json_file) THEN basic
        ELSE LET content == fs[cucumber_json_file]
             IN  IF ~content.parses
                 THEN JsonDecodeError(basic)
                 ELSE IF "list" \notin DOMAIN content
                 THEN ParsingErrorResult(subprocess_result, get_duration(m), timestamp)
                 ELSE LET er == FeatureLoop(basic, content.list)
                          st == er.statistics @@ [success_rate |-> SuccessRate(er.statistics)]
                      IN  [er EXCEPT !.statistics = st] @@ [cucumber_data |-> content.list]

(***************************************************************************)
(* The behave subprocess, as subprocess.run returns it.                    *)
(***************************************************************************)
ReturnCodes == {0, 1}

CompletedProcess(rc) ==
    [returncode |-> rc, stdout |-> "pretty", stderr |-> IF rc = 0 THEN "" ELSE "Traceback"]

(***************************************************************************)
(* SpecParse: behave writes a report, feature by feature, element by       *)
(* element and step by step, and _parse_behave_results reads whatever the  *)
(* file holds when the subprocess ends: no file, malformed text, a JSON    *)
(* object, or any report of up to MaxReportSize nodes, with either return  *)
(* code.                                                                   *)
(***************************************************************************)
ParsedFile == CucumberJsonFile({}, Strftime(0))

\* The last call: the operation, its feature_file argument (if any), the
\* subprocess result it worked on (if any), the places where an exception was
\* raised while it ran, and the exception that left it (if any).
Called(op, feature_file, subprocess_result, raised, escaped) ==
    [op |-> op, feature_file |-> feature_file, subprocess_result |-> subprocess_result,
     raised |-> raised, escaped |-> escaped]

NoCall == Called("none", {}, {}, {}, {})

\* Where _parse_behave_results meets an exception: json.load on malformed
\* text, the loops on a JSON value that is no list of features.
ParseRaises(fs, cucumber_json_file) ==
    IF ~PathExists(fs, cucumber_json_file) THEN {}
    ELSE IF ~fs[cucumber_json_file].parses THEN {"json.load"}
    ELSE IF "list" \notin DOMAIN fs[cucumber_json_file] THEN {"parse"}
    ELSE {}

NoFiles == [n \in {} |-> Malformed]

\* No browser was started, no hook has run.
NoSuite ==
    /\ driver = {}
    /\ sessions = <<>>
    /\ context = <<>>
    /\ processes = <<>>

\* The state of what the test runner never touches.
NothingElse ==
    /\ NoSuite
    /\ files = NoFiles
    /\ tables = NoFiles
    /\ connection = {}
    /\ SAMPLE_CLIENTS = <<>>
    /\ input = <<>>

\* Before behave writes anything: no report file, or one left by a run that
\* died (malformed text, a JSON object), or one holding the empty list.
ParseInit ==
    /\ reports \in {NoFiles}
                   \cup {WriteFile(NoFiles, ParsedFile, c) :
                            c \in {Malformed, WrongShape, JsonList(<<>>)}}
    /\ metadata = mark_complete(TestMetadata(0), 0)
    /\ ret = {}
    /\ call = NoCall
    /\ calls = 0
    /\ launched = 0
    /\ now = 0
    /\ NothingElse

\* The report being written, when the file holds a list of features.
Writing ==
    /\ ret = {}
    /\ PathExists(reports, ParsedFile)
    /\ "list" \in DOMAIN reports[ParsedFile]
    /\ ReportSize(reports[ParsedFile].list) < MaxReportSize

Written(r) ==
    /\ reports' = WriteFile(reports, ParsedFile, JsonList(r))
    /\ UNCHANGED <<metadata, ret, call, calls, launched, now, others>>

BehaveFeature ==
    /\ Writing
    /\ Written(AddFeature(reports[ParsedFile].list))

BehaveElement ==
    /\ Writing
    /\ reports[ParsedFile].list # <<>>
    /\ \E e \in Backgrounds \cup {NewScenario} :
          Written(AddElement(reports[ParsedFile].list, e))

BehaveStep ==
    /\ Writing
    /\ LastElementIsScenario(reports[ParsedFile].list)
    /\ \E step \in ReportSteps : Written(AddStep(reports[ParsedFile].list, step))

ParseBehaveResults ==
    /\ ret = {}
    /\ \E rc \in ReturnCodes :
          /\ ret' = {parse_behave_results(reports, metadata, CompletedProcess(rc),
                                          ParsedFile, {JunitXmlFile(Strftime(0))},
                                          Strftime(now), {})}
          /\ call' = Called("_parse_behave_results", {}, {CompletedProcess(rc)},
                            ParseRaises(reports, ParsedFile), {})
    /\ UNCHANGED <<reports, metadata, calls, launched, now, others>>

ParseNext == BehaveFeature \/ BehaveElement \/ BehaveStep \/ ParseBehaveResults

SpecParse == ParseInit /\ [][ParseNext]_vars

(***************************************************************************)
(* SpecScenario: behave writes the steps of one scenario, any kind of step *)
(* in any order, up to MaxSteps of them, and _parse_scenario reads it.     *)
(***************************************************************************)
ScenarioElement == reports[ParsedFile].list[1].elements[1]

ScenarioInit ==
    /\ reports = WriteFile(NoFiles, ParsedFile,
                           JsonList(AddElement(AddFeature(<<>>), NewScenario)))
    /\ metadata = mark_complete(TestMetadata(0), 0)
    /\ ret = {}
    /\ call = NoCall
    /\ calls = 0
    /\ launched = 0
    /\ now = 0
    /\ NothingElse

BehaveScenarioStep ==
    /\ ret = {}
    /\ Len(ScenarioElement.steps) < MaxSteps
    /\ \E step \in Steps : Written(AddStep(reports[ParsedFile].list, step))

ParseScenario ==
    /\ ret = {}
    /\ ret' = {parse_scenario(ScenarioElement, reports[ParsedFile].list[1].name)}
    /\ call' = Called("_parse_scenario", {}, {}, {}, {})
    /\ UNCHANGED <<reports, metadata, calls, launched, now, others>>

ScenarioNext == BehaveScenarioStep \/ ParseScenario

SpecScenario == ScenarioInit /\ [][ScenarioNext]_vars

(***************************************************************************)
(* Spec: the runner's two run operations, called in any order, with the    *)
(* environment choosing what fails and what behave writes.                 *)
(***************************************************************************)
\* The feature files of the features directory, and the names callers ask for.
FeaturesDir == {"data_validation.feature"}
FeatureArgs == FeaturesDir \cup {"missing.feature"}

PassingReport == AddStep(AddElement(AddFeature(<<>>), NewScenario), StepWith("passed"))
FailingReport == AddStep(AddElement(AddFeature(<<>>), NewScenario), StepWith("failed"))

\* What a behave run leaves in its JSON outfile: nothing at all, or a file.
BehaveOutputs ==
    {{}, {Malformed}, {WrongShape}, {JsonList(PassingReport)}, {JsonList(FailingReport)}}

\* The seconds a behave run takes.
SubprocessSeconds == {0, 1}

\* The files in place when subprocess.run returns: the JSON outfile, and the
\* JUnit report beside it when one was asked for.
BehaveWrites(fs, cucumber_json_file, junit_xml_file, out) ==
    IF out = {} THEN fs
    ELSE LET withJson == WriteFile(fs, cucumber_json_file, CHOOSE c \in out : TRUE)
         IN  IF junit_xml_file = {} THEN withJson
             ELSE WriteFile(withJson, CHOOSE j \in junit_xml_file : TRUE, JunitXml)

\* How a call ends: with a value, or with an exception leaving it.
Returned(v) == [returns |-> {v}, raises |-> {}]
Raised(e) == [returns |-> {}, raises |-> {e}]

\* A handler that logs and raises again.
RunAllExceptReraises(e, m, t) == Raised(e)

\* run_all_features: except Exception as e
RunAllExcept(e, m, t) ==
    Returned([success |-> FALSE,
              error |-> e,
              execution_time |-> get_duration(m),
              timestamp |-> IsoFormat(t)])

\* run_specific_feature: except Exception as e
RunSpecificExcept(e, feature_file, m, t) ==
    Returned([success |-> FALSE,
              error |-> e,
              feature_file |-> {feature_file},
              execution_time |-> get_duration(m),
              timestamp |-> IsoFormat(t)])

\* The existence test passing for every name.
FeatureFoundAlways(feature_file) == TRUE

\* os.path.exists(feature_path)
FeatureFound(feature_file) == feature_file \in FeaturesDir

\* run_specific_feature: the return for a feature file that is not there.
NotFoundResult(feature_file) ==
    [success |-> FALSE,
     error |-> "Feature file not found",
     feature_file |-> {feature_file}]

Init ==
    /\ reports = NoFiles
    /\ metadata = TestMetadata(0)
    /\ ret = {}
    /\ call = NoCall
    /\ calls = 0
    /\ launched = 0
    /\ now = 0
    /\ NothingElse

\* The end of a call: what it returned (or raised) and the state it leaves.
Finish(c, outcome, fs, m, l, t) ==
    /\ call' = [c EXCEPT !.escaped = outcome.raises]
    /\ ret' = outcome.returns
    /\ reports' = fs
    /\ metadata' = m
    /\ launched' = l
    /\ now' = t
    /\ calls' = calls + 1
    /\ UNCHANGED others

\* How a run ends: the call, what it returns, the reports directory, the
\* metadata, the number of launches and the time it leaves.
Ended(c, outcome, fs, m, l, t) == [call |-> c, outcome |-> outcome, fs |-> fs, m |-> m, l |-> l, t |-> t]

\* The body of run_all_features, started at time t0: every way it can end.
RunAllFeatures(t0) ==
    LET m0 == TestMetadata(t0)
        timestamp == Strftime(t0)
        cucumber_json_file == CucumberJsonFile({}, timestamp)
        junit_xml_file == JunitXmlFile(timestamp)
        metadata_file == MetadataFile(timestamp)
        \* behave runs
        Ran(rc, out, d, io) ==
            LET fs1 == BehaveWrites(reports, cucumber_json_file, {junit_xml_file}, out)
                m1 == mark_complete(m0, t0 + d)
                execution_result ==
                    parse_behave_results(fs1, m1, CompletedProcess(rc),
                                         cucumber_json_file, {junit_xml_file},
                                         timestamp, {})
                m2 == [m1 EXCEPT !.test_results = {execution_result}]
                fs2 == save_json_file(fs1, to_dict(m2), metadata_file, io)
                raised == ParseRaises(fs1, cucumber_json_file)
                          \cup (IF io = "ok" THEN {} ELSE {"save_json_file"})
            IN  Ended(Called("run_all_features", {}, {CompletedProcess(rc)}, raised, {}),
                      Returned(execution_result), fs2, m2, launched + 1, t0 + d)
    IN  \* os.makedirs raises
        {Ended(Called("run_all_features", {}, {}, {"makedirs"}, {}),
               RunAllExcept("makedirs", m0, t0), reports, m0, launched, t0)}
        \cup \* subprocess.run raises: no behave to execute
        {Ended(Called("run_all_features", {}, {}, {"subprocess.run"}, {}),
               RunAllExcept("subprocess.run", m0, t0), reports, m0, launched, t0)}
        \cup
        {Ran(rc, out, d, io) : rc \in ReturnCodes, out \in BehaveOutputs,
                               d \in {s \in SubprocessSeconds : t0 + s <= MaxClock},
                               io \in IoOutcomes}

run_all_features ==
    /\ calls < MaxRuns
    /\ \E e \in RunAllFeatures(now) : Finish(e.call, e.outcome, e.fs, e.m, e.l, e.t)

run_specific_feature(feature_file) ==
    /\ calls < MaxRuns
    /\ LET m0 == TestMetadata(now)
           timestamp == Strftime(now)
           cucumber_json_file == CucumberJsonFile({feature_file}, timestamp)
       IN  \/ \* the feature file is not there
              /\ ~FeatureFound(feature_file)
              /\ Finish(Called("run_specific_feature", {feature_file}, {}, {}, {}),
                        Returned(NotFoundResult(feature_file)),
                        reports, metadata, launched, now)
           \/ \* subprocess.run raises: no behave to execute
              /\ FeatureFound(feature_file)
              /\ Finish(Called("run_specific_feature", {feature_file}, {},
                               {"subprocess.run"}, {}),
                        RunSpecificExcept("subprocess.run", feature_file, m0, now),
                        reports, m0, launched, now)
           \/ \* behave runs
              /\ FeatureFound(feature_file)
              /\ \E rc \in ReturnCodes, out \in BehaveOutputs, d \in SubprocessSeconds :
                    /\ now + d <= MaxClock
                    /\ LET fs1 == BehaveWrites(reports, cucumber_json_file, {}, out)
                           m1 == mark_complete(m0, now + d)
                           execution_result ==
                               parse_behave_results(fs1, m1, CompletedProcess(rc),
                                                    cucumber_json_file, {}, timestamp,
                                                    {feature_file})
                       IN  Finish(Called("run_specific_feature", {feature_file},
                                         {CompletedProcess(rc)},
                                         ParseRaises(fs1, cucumber_json_file), {}),
                                  Returned(execution_result), fs1, m1, launched + 1,
                                  now + d)

Next == run_all_features \/ \E feature_file \in FeatureArgs : run_specific_feature(feature_file)

Spec == Init /\ [][Next]_vars

(***************************************************************************)
(* What the claims speak of.                                               *)
(***************************************************************************)
\* The value the last operation returned.
Result == CHOOSE r \in ret : TRUE

ScenarioParsed == ret # {} /\ call.op = "_parse_scenario"

\* _parse_behave_results returned, having read a list of features.
ReportParsed ==
    /\ ret # {}
    /\ call.op = "_parse_behave_results"
    /\ PathExists(reports, ParsedFile)
    /\ "list" \in DOMAIN reports[ParsedFile]

Passed(step) == step.result = {[status |-> "passed"]}
Failed(step) == step.result = {[status |-> "failed"]}

AllPassed(steps) == \A i \in 1..Len(steps) : Passed(steps[i])
SomeFailed(steps) == \E i \in 1..Len(steps) : Failed(steps[i])
SomeOther(steps) == \E i \in 1..Len(steps) : ~Passed(steps[i]) /\ ~Failed(steps[i])

\* The elements of type 'scenario' of a report, in order.
RECURSIVE ScenariosIn(_)
ScenariosIn(elements) ==
    IF elements = <<>> THEN <<>>
    ELSE (IF Head(elements).type = "scenario" THEN <<Head(elements)>> ELSE <<>>)
         \o ScenariosIn(Tail(elements))

RECURSIVE ScenariosOf(_)
ScenariosOf(r) ==
    IF r = <<>> THEN <<>> ELSE ScenariosIn(Head(r).elements) \o ScenariosOf(Tail(r))

\* How many entries of a 'scenarios' list carry a status.
WithStatus(scenarios, status) ==
    Cardinality({i \in 1..Len(scenarios) : scenarios[i].status = status})

(***************************************************************************)
(* C1: for every parsed report, total_scenarios is the number of elements  *)
(* of type 'scenario' and the length of 'scenarios'; passed_, failed_ and  *)
(* skipped_scenarios are the numbers of entries of 'scenarios' with that   *)
(* status; and passed + failed + skipped = total.                          *)
(***************************************************************************)
C1_CountsAgree ==
    ReportParsed =>
        LET st == Result.statistics
            sc == Result.scenarios
        IN  /\ st.total_scenarios = Len(ScenariosOf(reports[ParsedFile].list))
            /\ st.total_scenarios = Len(sc)
            /\ st.passed_scenarios = WithStatus(sc, "passed")
            /\ st.failed_scenarios = WithStatus(sc, "failed")
            /\ st.skipped_scenarios = WithStatus(sc, "skipped")
            /\ st.passed_scenarios + st.failed_scenarios + st.skipped_scenarios
                  = st.total_scenarios

\* A report of two features and a background, with a scenario of each status.
C1_Witness ==
    /\ ReportParsed
    /\ Len(reports[ParsedFile].list) = 2
    /\ Len(ScenariosOf(reports[ParsedFile].list)) = 3
    /\ \E i \in 1..2 : \E j \in 1..Len(reports[ParsedFile].list[i].elements) :
          reports[ParsedFile].list[i].elements[j].type = "background"
    /\ Result.statistics.passed_scenarios = 1
    /\ Result.statistics.failed_scenarios = 1
    /\ Result.statistics.skipped_scenarios = 1

(***************************************************************************)
(* C2: _parse_scenario says 'passed' exactly when the scenario has a step  *)
(* and every step's result status is 'passed'; with no failed step and a   *)
(* step that is neither passed nor failed (skipped, undefined, no result)  *)
(* it says 'skipped'.                                                      *)
(***************************************************************************)
C2_PassedIffAllStepsPassed ==
    ScenarioParsed =>
        LET steps == ScenarioElement.steps
        IN  /\ (Result.status = "passed") <=> (Len(steps) > 0 /\ AllPassed(steps))
            /\ (~SomeFailed(steps) /\ SomeOther(steps)) => Result.status = "skipped"

\* Passed steps around a step without a result: skipped.
C2_Witness ==
    /\ ScenarioParsed
    /\ Len(ScenarioElement.steps) = 3
    /\ Passed(ScenarioElement.steps[1])
    /\ ScenarioElement.steps[2] = StepWithoutResult
    /\ Passed(ScenarioElement.steps[3])
    /\ Result.status = "skipped"

(***************************************************************************)
(* C3: a scenario with a failed step is 'failed', whatever its other steps *)
(* are and wherever the failed step stands.                                *)
(***************************************************************************)
C3_FailedStepFails ==
    (ScenarioParsed /\ SomeFailed(ScenarioElement.steps)) => Result.status = "failed"

\* A failed step between a passed one and skipped ones.
C3_Witness ==
    /\ ScenarioParsed
    /\ Len(ScenarioElement.steps) = 4
    /\ Passed(ScenarioElement.steps[1])
    /\ Failed(ScenarioElement.steps[2])
    /\ ScenarioElement.steps[3] = StepWith("skipped")
    /\ ScenarioElement.steps[4] = StepWith("undefined")
    /\ Result.status = "failed"

(***************************************************************************)
(* C4: a scenario without steps is never 'passed', and passed_scenarios    *)
(* counts no such scenario.                                                *)
(***************************************************************************)
C4_NoStepsNeverPassed ==
    ReportParsed =>
        LET elems == ScenariosOf(reports[ParsedFile].list)
            sc == Result.scenarios
        IN  /\ Len(sc) = Len(elems)
            /\ \A i \in 1..Len(elems) : elems[i].steps = <<>> => sc[i].status # "passed"
            /\ Result.statistics.passed_scenarios
                  <= Cardinality({i \in 1..Len(elems) : elems[i].steps # <<>>})

\* A scenario without steps beside one that passed.
C4_Witness ==
    /\ ReportParsed
    /\ LET elems == ScenariosOf(reports[ParsedFile].list)
       IN  /\ Len(elems) = 2
           /\ elems[1].steps = <<>>
           /\ elems[2].steps # <<>>
    /\ Result.scenarios[1].status = "skipped"
    /\ Result.statistics.passed_scenarios = 1

(***************************************************************************)
(* C5: when the report was parsed, success_rate is passed_scenarios /      *)
(* total_scenarios * 100 rounded to 2 decimals (the nearest hundredth: no  *)
(* further from the quotient than half a hundredth), and 0 when there is   *)
(* no scenario.                                                            *)
(***************************************************************************)
C5_SuccessRate ==
    ReportParsed =>
        LET st == Result.statistics
            off == st.success_rate * st.total_scenarios - st.passed_scenarios * 10000
        IN  /\ "success_rate" \in DOMAIN st
            /\ st.total_scenarios = 0 => st.success_rate = 0
            /\ st.total_scenarios > 0 =>
                  /\ 2 * off <= st.total_scenarios
                  /\ -2 * off <= st.total_scenarios

\* 2 of 3 scenarios passed: 66.67.
C5_Witness ==
    /\ ReportParsed
    /\ Result.statistics.passed_scenarios = 2
    /\ Result.statistics.total_scenarios = 3
    /\ Result.statistics.success_rate = 6667

ExampleReport ==
    <<[name |-> "Feature",
       elements |-> <<[type |-> "scenario",
                       steps |-> <<StepWith("passed"), StepWith("passed"),
                                   StepWith("passed")>>],
                      [type |-> "scenario",
                       steps |-> <<StepWith("failed"), StepWith("passed")>>]>>]>>

ExampleParsed == ReportParsed /\ reports[ParsedFile].list = ExampleReport

(***************************************************************************)
(* C6: one feature with two scenarios, the first with 3 passed steps, the  *)
(* second with a failed and a passed step: total 2, passed 1, failed 1,    *)
(* skipped 0, success rate 50.0.                                           *)
(***************************************************************************)
C6_Example ==
    ExampleParsed =>
        /\ Result.statistics.total_scenarios = 2
        /\ Result.statistics.passed_scenarios = 1
        /\ Result.statistics.failed_scenarios = 1
        /\ Result.statistics.skipped_scenarios = 0
        /\ Result.statistics.success_rate = 5000

C6_Witness == ExampleParsed /\ Result.scenarios[2].status = "failed"

RunSpecificStep == calls' = calls + 1 /\ call'.op = "run_specific_feature"

(***************************************************************************)
(* C7: run_specific_feature tests that the feature path exists before      *)
(* anything else. For a file that is not there it returns {success: false, *)
(* error, feature_file}, launches no subprocess, writes no report file and *)
(* leaves the runner's metadata as it was; a subprocess is launched only   *)
(* for a file that is there.                                               *)
(***************************************************************************)
C7_ExistenceCheckedFirst ==
    [][RunSpecificStep =>
          \A f \in call'.feature_file :
             /\ f \notin FeaturesDir =>
                   /\ ret' = {[success |-> FALSE, error |-> "Feature file not found",
                               feature_file |-> {f}]}
                   /\ call'.escaped = {}
                   /\ launched' = launched
                   /\ reports' = reports
                   /\ metadata' = metadata
             /\ launched' # launched => f \in FeaturesDir]_vars

\* A missing feature file asked for after a run that left files and metadata.
C7_Witness ==
    /\ call.op = "run_specific_feature"
    /\ call.feature_file = {"missing.feature"}
    /\ ret = {NotFoundResult("missing.feature")}
    /\ launched = 1
    /\ metadata.test_results # {}
    /\ DOMAIN reports # {}

RunReturned == calls > 0 /\ call.op \in {"run_all_features", "run_specific_feature"}

FailureFields == {"success", "error", "execution_time", "timestamp"}

IsFailure == ret # {} /\ FailureFields \subseteq DOMAIN Result /\ ~Result.success

(***************************************************************************)
(* C8: the run operations never raise to the caller, and any exception     *)
(* raised while they run (creating the reports directory, launching the    *)
(* subprocess, parsing the report, saving the metadata) gives a returned   *)
(* dictionary with success = false and the fields error, execution_time    *)
(* and timestamp.                                                          *)
(***************************************************************************)
C8_AnyExceptionIsFailure ==
    RunReturned =>
        /\ call.escaped = {}
        /\ call.raised # {} => IsFailure

(***************************************************************************)
(* C8, amended: the run operations never raise to the caller; an exception *)
(* raised creating the reports directory, launching the subprocess or      *)
(* reading the report (other than a JSON decoding error) gives a returned  *)
(* dictionary with success = false and the fields error, execution_time    *)
(* and timestamp; a JSON decoding error and a failed save of the metadata  *)
(* are swallowed where they happen, and the result keeps success = (return *)
(* code = 0) and has no error field.                                       *)
(***************************************************************************)
C8_HandledExceptionIsFailure ==
    RunReturned =>
        /\ call.escaped = {}
        /\ ret # {}
        /\ call.raised \cap {"makedirs", "subprocess.run", "parse"} # {} => IsFailure
        /\ (call.raised # {} /\ call.raised \subseteq {"json.load", "save_json_file"}) =>
              /\ "error" \notin DOMAIN Result
              /\ \A p \in call.subprocess_result : Result.success = (p.returncode = 0)

\* Launching the subprocess fails in a second run: the failure dictionary,
\* with the fresh metadata still in progress.
C8_Witness ==
    /\ RunReturned
    /\ calls = 2
    /\ call.raised = {"subprocess.run"}
    /\ IsFailure
    /\ Result.execution_time = InProgress
    /\ metadata.test_results = {}
    /\ DOMAIN reports # {}

MalformedParsed ==
    /\ ret # {}
    /\ call.op = "_parse_behave_results"
    /\ PathExists(reports, ParsedFile)
    /\ ~reports[ParsedFile].parses

(***************************************************************************)
(* C9: a report file of malformed JSON does not abort the result: it has   *)
(* json_parse_error, the subprocess's return_code, stdout and stderr,      *)
(* success = (return code = 0), no scenarios and all counts 0.             *)
(***************************************************************************)
C9_MalformedJsonRecorded ==
    MalformedParsed =>
        LET p == CHOOSE x \in call.subprocess_result : TRUE
        IN  /\ {"json_parse_error", "return_code", "stdout", "stderr", "success",
                "scenarios", "statistics"} \subseteq DOMAIN Result
            /\ "error" \notin DOMAIN Result
            /\ Result.return_code = p.returncode
            /\ Result.stdout = p.stdout
            /\ Result.stderr = p.stderr
            /\ Result.success = (p.returncode = 0)
            /\ Result.scenarios = <<>>
            /\ Result.statistics = ZeroStatistics

\* A malformed report of a run that ended with return code 0.
C9_Witness ==
    /\ MalformedParsed
    /\ "json_parse_error" \in DOMAIN Result
    /\ Result.success

CompletedRunStep ==
    /\ calls' = calls + 1
    /\ call'.op \in {"run_all_features", "run_specific_feature"}
    /\ call'.subprocess_result # {}
    /\ "save_json_file" \notin call'.raised

(***************************************************************************)
(* C10: after either run operation returns the result of a completed       *)
(* subprocess run, a test_metadata_<timestamp>.json file holding that      *)
(* run's metadata and result is in the reports directory (granted that     *)
(* writing it did not fail), and no run operation deletes an earlier file. *)
(***************************************************************************)
C10_MetadataFileWritten ==
    [][CompletedRunStep =>
          /\ DOMAIN reports \subseteq DOMAIN reports'
          /\ \E ts \in {Strftime(t) : t \in 0..MaxClock} :
                /\ PathExists(reports', MetadataFile(ts))
                /\ reports'[MetadataFile(ts)] = JsonObject(to_dict(metadata'))
                /\ metadata'.test_results = ret']_vars

(***************************************************************************)
(* ge_checks.py: the data quality checker.                                 *)
(*                                                                         *)
(* A cell of the API data is a tagged record; a string is kept as its      *)
(* length, which is all the checks read of it.  A column name is the       *)
(* sequence of its characters, so that lower() and the substring tests are *)
(* computed.  A dict whose order matters is a sequence of key/value pairs. *)
(***************************************************************************)
PyNone == [type |-> "NoneType"]
PyInt(n) == [type |-> "int", value |-> n]
PyBool(b) == [type |-> "bool", flag |-> b]
PyStr(length) == [type |-> "str", len |-> length]

RevenueLimit == 1000000
LengthLimit == 255

\* The column names of the model.
revenue == <<"r", "e", "v", "e", "n", "u", "e">>
Amount == <<"A", "m", "o", "u", "n", "t">>
client_id == <<"c", "l", "i", "e", "n", "t", "_", "i", "d">>
client_name == <<"c", "l", "i", "e", "n", "t", "_", "n", "a", "m", "e">>
active == <<"a", "c", "t", "i", "v", "e">>

\* str.lower(), on the letters of the column names.
Lowercase == [A |-> "a", B |-> "b", C |-> "c", D |-> "d", E |-> "e", F |-> "f", G |-> "g", H |-> "h", I |-> "i", J |-> "j", K |-> "k", L |-> "l", M |-> "m", N |-> "n", O |-> "o", P |-> "p", Q |-> "q", R |-> "r", S |-> "s", T |-> "t", U |-> "u", V |-> "v", W |-> "w", X |-> "x", Y |-> "y", Z |-> "z"]

lower(str) == [i \in DOMAIN str |-> IF str[i] \in DOMAIN Lowercase THEN Lowercase[str[i]] ELSE str[i]]

\* sub in str
Contains(sub, str) == \E i \in 1..(Len(str) - Len(sub) + 1) : SubSeq(str, i, i + Len(sub) - 1) = sub

\* pd.DataFrame(records): one column per key of the records, none for an
\* empty list.  The records of the model all have the keys of the first.
DataFrame(records) ==
    IF records = <<>> THEN <<>>
    ELSE [j \in DOMAIN records[1] |->
             [name |-> records[1][j].key,
              values |-> [i \in DOMAIN records |-> records[i][j].value]]]

\* The dtype pandas infers: whole numbers are int64, whole numbers with
\* None among them float64 (None reads NaN), booleans bool, and anything
\* else, a column of None alone included, object.
dtype(values) ==
    LET types == {values[i].type : i \in DOMAIN values}
    IN  IF types = {"int"} THEN "int64"
        ELSE IF types = {"int", "NoneType"} THEN "float64"
        ELSE IF types = {"bool"} THEN "bool"
        ELSE "object"

isnull(values) == {i \in DOMAIN values : values[i] = PyNone}

Numbers(values) == {values[i].value : i \in DOMAIN values \ isnull(values)}

\* Series.min() and Series.max(), which skip NaN.
Minimum(values) == CHOOSE n \in Numbers(values) : \A m \in Numbers(values) : n <= m
Maximum(values) == CHOOSE n \in Numbers(values) : \A m \in Numbers(values) : n >= m

\* The minimum checked for 'revenue' alone.
AllPositiveOfRevenue(column) ==
    IF Contains(revenue, lower(column.name))
    THEN Minimum(column.values) >= 0
    ELSE TRUE

AllPositive(column) ==
    IF Contains(revenue, lower(column.name)) \/ Contains(lower(Amount), lower(column.name))
    THEN Minimum(column.values) >= 0
    ELSE TRUE

\* No column has a maximum to respect.
ReasonableMaxNotApplicable(column) == TRUE

ReasonableMax(column) ==
    IF Contains(revenue, lower(column.name))
    THEN Maximum(column.values) <= RevenueLimit
    ELSE TRUE

validate_numeric_column(column) ==
    LET null_count == Cardinality(isnull(column.values))
        has_nulls == null_count > 0
        all_positive == AllPositive(column)
        reasonable_max == ReasonableMax(column)
    IN  [expectation_config |->
            [expectation_type |-> "expect_column_values_to_be_between",
             kwargs |-> [column |-> column.name, min_value |-> 0, max_value |-> RevenueLimit]],
         success |-> ~has_nulls /\ all_positive /\ reasonable_max,
         result |->
            [observed_value |-> [min |-> Minimum(column.values),
                                 max |-> Maximum(column.values),
                                 null_count |-> null_count],
             details |-> [has_nulls |-> has_nulls,
                          all_positive |-> all_positive,
                          reasonable_max |-> reasonable_max]]]

\* len(str(v)) of a cell of an object column: 'None', 'True', 'False', or
\* the string itself.
StrLen(cell) ==
    IF cell.type = "str" THEN cell.len
    ELSE IF cell = PyBool(FALSE) THEN 5
    ELSE 4

MaxOf(S) == CHOOSE n \in S : \A m \in S : n >= m

validate_string_column(column) ==
    LET null_count == Cardinality(isnull(column.values))
        has_nulls == null_count > 0
        empty_count == Cardinality({i \in DOMAIN column.values : column.values[i] = PyStr(0)})
        has_empty == empty_count > 0
        max_length == MaxOf({StrLen(column.values[i]) : i \in DOMAIN column.values})
        reasonable_length == max_length <= LengthLimit
    IN  [expectation_config |->
            [expectation_type |-> "expect_column_values_to_not_be_null",
             kwargs |-> [column |-> column.name]],
         success |-> ~has_nulls /\ ~has_empty /\ reasonable_length,
         result |->
            [observed_value |-> [null_count |-> null_count,
                                 empty_count |-> empty_count,
                                 max_length |-> max_length],
             details |-> [has_nulls |-> has_nulls,
                          has_empty |-> has_empty,
                          reasonable_length |-> reasonable_length]]]

\* The statistics of a list of check results (validate_api_data and
\* validate_database_table compute them with the same four expressions).
\* The quotient is a whole number for the one or two results of the model.
Successful(results) == {i \in DOMAIN results : results[i].success}
Unsuccessful(results) == {i \in DOMAIN results : ~results[i].success}

\* Every unsuccessful result counted as successful as well.
SuccessPercentOfEvaluated(results) ==
    IF results # <<>> THEN (Len(results) * 100) \div Len(results) ELSE 0

SuccessPercent(results) ==
    IF results # <<>> THEN (Cardinality(Successful(results)) * 100) \div Len(results) ELSE 0

Statistics(results) ==
    [evaluated_expectations |-> Len(results),
     successful_expectations |-> Cardinality(Successful(results)),
     unsuccessful_expectations |-> Cardinality(Unsuccessful(results)),
     success_percent |-> SuccessPercent(results)]

\* all(r['success'] for r in results)
AllSuccess(results) == \A i \in DOMAIN results : results[i].success

\* The dict of the two except handlers.
ValidationError(e) ==
    [success |-> FALSE,
     error |-> e,
     statistics |-> [evaluated_expectations |-> 0, successful_expectations |-> 0]]

(***************************************************************************)
(* The data docs directory: validation_results_<timestamp>.json,           *)
(* data_docs_<timestamp>.html and index.html.                              *)
(***************************************************************************)
ValidationResultsFile(timestamp) ==
    [prefix |-> "validation_results", timestamp |-> timestamp, ext |-> "json"]

DataDocsFile(timestamp) ==
    [prefix |-> "data_docs", timestamp |-> timestamp, ext |-> "html"]

IndexFile == [prefix |-> "index", ext |-> "html"]

\* The page of one validation result, and the index page: the timestamps
\* of the pages and of the result files that it lists, in its order.
DataDocs(validation_result) == [parses |-> FALSE, docs |-> validation_result]
IndexHtml(html_files, json_files) ==
    [parses |-> FALSE, html_files |-> html_files, json_files |-> json_files]

\* glob.glob(f"{data_docs_dir}/<prefix>_*.<ext>"), as the timestamps found.
Glob(fs, prefix, ext) ==
    {n.timestamp.seconds : n \in {m \in DOMAIN fs : m.prefix = prefix /\ m.ext = ext}}

\* list.sort(reverse=True) of the names, which differ by their timestamps.
RECURSIVE SortReverse(_)
SortReverse(S) ==
    IF S = {} THEN <<>>
    ELSE LET newest == CHOOSE t \in S : \A u \in S : t >= u
         IN  <<Strftime(newest)>> \o SortReverse(S \ {newest})

ShownReports == 10

\* files[:10]
Latest(sorted) == SubSeq(sorted, 1, IF Len(sorted) < ShownReports THEN Len(sorted) ELSE ShownReports)

SaveOutcomes == {"ok", "results file fails", "data docs fail", "index fails"}

generate_data_docs(fs, validation_result, timestamp, io) ==
    IF io = "data docs fail" THEN fs
    ELSE WriteFile(fs, DataDocsFile(timestamp), DataDocs(validation_result))

generate_index_html(fs, io) ==
    IF io = "index fails" THEN fs
    ELSE WriteFile(fs, IndexFile,
                   IndexHtml(Latest(SortReverse(Glob(fs, "data_docs", "html"))),
                             Latest(SortReverse(Glob(fs, "validation_results", "json")))))

\* _save_validation_results: the result file, then the page, then the
\* index; open() failing on the result file ends the save, a failure of
\* the page or of the index is logged by its own handler.
save_validation_results(fs, validation_result, t, io) ==
    IF io = "results file fails" THEN fs
    ELSE generate_index_html(
             generate_data_docs(
                 WriteFile(fs, ValidationResultsFile(Strftime(t)), JsonObject(validation_result)),
                 validation_result, Strftime(t), io),
             io)

\* The three shapes of api_data that validate_api_data tells apart, and a
\* dict whose 'data' is a number, which pd.DataFrame rejects.
ApiDataShapes(records) ==
    {"dict with data", "list"}
        \cup (IF Len(records) = 1 THEN {"record"} ELSE {})
        \cup (IF records = <<>> THEN {"dict with scalar data"} ELSE {})

ColumnResults(df) ==
    LET Checked == {j \in DOMAIN df : dtype(df[j].values) \in {"int64", "float64", "object"}}
        Check(j) == IF dtype(df[j].values) = "object"
                    THEN validate_string_column(df[j])
                    ELSE validate_numeric_column(df[j])
        RECURSIVE Loop(_)
        Loop(j) == IF j > Len(df) THEN <<>>
                   ELSE (IF j \in Checked THEN <<Check(j)>> ELSE <<>>) \o Loop(j + 1)
    IN  Loop(1)

\* validate_api_data: the result it returns and the files it leaves.
validate_api_data(fs, shape, records, t, io) ==
    IF shape = "dict with scalar data"
    THEN [returns |-> ValidationError("DataFrame constructor not properly called!"),
          files |-> fs]
    ELSE LET results == ColumnResults(DataFrame(records))
             validation_result ==
                 [success |-> AllSuccess(results),
                  statistics |-> Statistics(results),
                  results |-> results,
                  meta |-> [validation_time |-> IsoFormat(t),
                            expectation_suite_name |-> "api_data_validation"]]
         IN  [returns |-> validation_result,
              files |-> save_validation_results(fs, validation_result, t, io)]

(***************************************************************************)
(* db_utils.py: DatabaseManager.  The database is a function from the      *)
(* names of its tables to their rows; a connection is {} (None) or         *)
(* {"open"}.  Each operation gives what it returns and the connection it   *)
(* leaves; whether a connection can be made is the environment's choice.   *)
(***************************************************************************)
NoTables == [n \in {} |-> <<>>]

ConnectOutcomes == {"ok", "fails"}

\* connect: _connect_sqlite or _connect_sql_server, which assign
\* self.connection only when the driver returns a connection.
connect(conn, outcome) ==
    IF outcome = "ok" THEN [returns |-> TRUE, connection |-> {"open"}]
    ELSE [returns |-> FALSE, connection |-> conn]

\* A disconnect that leaves the connection as it is.
disconnect_keeping(conn) == conn

\* disconnect: closes and forgets the connection, if there is one.
disconnect(conn) == {}

\* The first lines of execute_query and of execute_non_query: connect when
\* there is no connection.
EnsureConnection(conn, outcome) == IF conn # {} THEN conn ELSE connect(conn, outcome).connection

\* get_table_count: SELECT COUNT(*), None when execute_query returns None
\* (no connection, or no such table).
get_table_count(db, conn, table_name, outcome) ==
    LET c == EnsureConnection(conn, outcome)
    IN  [returns |-> IF c # {} /\ table_name \in DOMAIN db THEN {Len(db[table_name])} ELSE {},
         connection |-> c]

\* The columns of the tables of the model.
Columns == <<"client_id">>

\* get_table_info: the columns that the catalogue lists for the table
\* (none for a table that does not exist, None without a connection) and
\* the row count; a dict in every case.
get_table_info(db, conn, table_name, outcome) ==
    LET c == EnsureConnection(conn, outcome)
    IN  [returns |-> {[table_name |-> table_name,
                       row_count |-> get_table_count(db, c, table_name, outcome).returns,
                       columns |-> IF c = {} THEN {}
                                   ELSE IF table_name \in DOMAIN db THEN {Columns}
                                   ELSE {<<>>}]},
         connection |-> c]

(***************************************************************************)
(* ge_checks.py: validate_database_table.                                  *)
(***************************************************************************)
RowCountToEqual(actual_count, expected_count) ==
    [expectation_config |-> [expectation_type |-> "expect_table_row_count_to_equal",
                             kwargs |-> [value |-> expected_count]],
     success |-> actual_count = expected_count,
     result |-> [observed_value |-> actual_count, expected_value |-> expected_count]]

RowCountToBeBetween(row_count) ==
    [expectation_config |-> [expectation_type |-> "expect_table_row_count_to_be_between",
                             kwargs |-> [min_value |-> 1]],
     success |-> row_count > 0,
     result |-> [observed_value |-> row_count]]

\* The row count check added whether or not a count is expected.
TableResultsAlwaysCounting(row_count, expected_count) ==
    <<RowCountToEqual(row_count, IF expected_count = {} THEN 0 ELSE CHOOSE n \in expected_count : TRUE),
      RowCountToBeBetween(row_count)>>

TableResults(row_count, expected_count) ==
    (IF expected_count # {}
     THEN <<RowCountToEqual(row_count, CHOOSE n \in expected_count : TRUE)>>
     ELSE <<>>)
    \o <<RowCountToBeBetween(row_count)>>

\* validate_database_table with a manager of its own (get_db_manager): the
\* result, and the connection that the manager holds when the call ends.
\* A row count of None makes `row_count > 0` raise a TypeError.
validate_database_table(db, table_name, expected_count, t, outcome) ==
    LET info == get_table_info(db, {}, table_name, outcome)
        table_info == CHOOSE i \in info.returns : TRUE
    IN  IF info.returns = {}
        THEN [returns |-> [success |-> FALSE, error |-> "not found or inaccessible"],
              connection |-> info.connection]
        ELSE IF table_info.row_count = {}
        THEN [returns |-> ValidationError("'>' not supported between instances of 'NoneType' and 'int'"),
              connection |-> info.connection]
        ELSE LET results == TableResults(CHOOSE n \in table_info.row_count : TRUE, expected_count)
             IN  [returns |-> [success |-> AllSuccess(results),
                               statistics |-> Statistics(results),
                               results |-> results,
                               meta |-> [validation_time |-> IsoFormat(t),
                                         table_name |-> table_name,
                                         table_info |-> table_info]],
                  connection |-> disconnect(info.connection)]

(***************************************************************************)
(* SpecQuality: the data quality checker validates API data that the       *)
(* environment prepares record by record, or a table of a database that    *)
(* the environment chose.  validate_api_data reads nothing of the          *)
(* database and validate_database_table nothing of the API data, so a      *)
(* behaviour prepares one or the other.                                    *)
(***************************************************************************)
\* The records of one API response.
MaxRows == 2
\* The rows of a table of the database.
MaxTableRows == 2

\* The test runner, which takes no part.
RunnerIdle ==
    /\ reports = NoFiles
    /\ metadata = TestMetadata(0)
    /\ launched = 0
    /\ NoSuite

runner == <<reports, metadata, launched, suite>>

\* The keys of the records of a response.
Frames ==
    {<<revenue>>, <<Amount>>, <<client_id>>, <<client_name>>, <<active>>,
     <<revenue, client_name>>, <<Amount, active>>}

\* The values that the model gives to a key.
CellsOf(key) ==
    IF key = client_name THEN {PyNone, PyStr(0), PyStr(8), PyStr(LengthLimit + 1)}
    ELSE IF key = active THEN {PyNone, PyBool(TRUE)}
    ELSE {PyNone, PyInt(-1), PyInt(0), PyInt(RevenueLimit), PyInt(RevenueLimit + 1)}

Records(keys) ==
    IF Len(keys) = 1
    THEN {<<[key |-> keys[1], value |-> v]>> : v \in CellsOf(keys[1])}
    ELSE {<<[key |-> keys[1], value |-> v], [key |-> keys[2], value |-> w]>> :
             v \in CellsOf(keys[1]), w \in CellsOf(keys[2])}

KeysOf(record) == [j \in DOMAIN record |-> record[j].key]

Table(n) == [i \in 1..n |-> [client_id |-> i]]

Databases == {NoTables} \cup {[name \in {"clients"} |-> Table(n)] : n \in 0..MaxTableRows}

TableNames == {"clients", "orders"}

\* The documents that an earlier validation left, at second 0.
EarlierDocs == validate_api_data(NoFiles, "list", <<>>, 0, "ok").files

QualityInit ==
    /\ RunnerIdle
    /\ files \in {NoFiles, EarlierDocs}
    /\ tables \in Databases
    /\ connection = {}
    /\ SAMPLE_CLIENTS = <<>>
    /\ input = <<>>
    /\ ret = {}
    /\ call = NoCall
    /\ calls = 0
    /\ now = 1

ApiRecord ==
    /\ ret = {}
    /\ tables = NoTables
    /\ Len(input) < MaxRows
    /\ \E keys \in (IF input = <<>> THEN Frames ELSE {KeysOf(input[1])}) :
          \E record \in Records(keys) : input' = Append(input, record)
    /\ UNCHANGED <<runner, files, tables, connection, SAMPLE_CLIENTS, ret, call, calls, now>>

ValidateApiData ==
    /\ ret = {}
    /\ \E shape \in ApiDataShapes(input), io \in SaveOutcomes :
          LET r == validate_api_data(files, shape, input, now, io)
          IN  /\ ret' = {r.returns}
              /\ files' = r.files
              /\ call' = [op |-> "validate_api_data", io |-> io,
                          records |-> shape # "dict with scalar data"]
    /\ calls' = calls + 1
    /\ UNCHANGED <<runner, tables, connection, SAMPLE_CLIENTS, input, now>>

ValidateDatabaseTable ==
    /\ ret = {}
    /\ input = <<>>
    /\ \E table_name \in TableNames, expected_count \in {{}} \cup {{n} : n \in 0..MaxTableRows}, outcome \in ConnectOutcomes :
          LET r == validate_database_table(tables, table_name, expected_count, now, outcome)
          IN  /\ ret' = {r.returns}
              /\ connection' = r.connection
              /\ call' = [op |-> "validate_database_table", table_name |-> table_name,
                          expected_count |-> expected_count, outcome |-> outcome]
    /\ calls' = calls + 1
    /\ UNCHANGED <<runner, files, tables, SAMPLE_CLIENTS, input, now>>

QualityNext == ApiRecord \/ ValidateApiData \/ ValidateDatabaseTable

SpecQuality == QualityInit /\ [][QualityNext]_vars

(***************************************************************************)
(* The claims about the data quality checker.                              *)
(***************************************************************************)
\* validate_api_data has returned, for api_data that holds records.
ApiValidated == ret # {} /\ call.op = "validate_api_data" /\ call.records

\* The values of the first key of the records.
FirstValues == {input[i][1].value : i \in DOMAIN input}

RevenueOnly == \A i \in DOMAIN input : KeysOf(input[i]) = <<revenue>>

OutOfRange(cell) ==
    \/ cell = PyNone
    \/ cell.type = "int" /\ (cell.value < 0 \/ cell.value > RevenueLimit)

NumericColumns ==
    {c \in {DataFrame(input)[j] : j \in DOMAIN DataFrame(input)} : dtype(c.values) \in {"int64", "float64"}}

\* The success flag of the check of a column.
SuccessOf(name) ==
    LET r == CHOOSE r \in {Result.results[j] : j \in DOMAIN Result.results} : r.expectation_config.kwargs.column = name
    IN  r.success

HasNull(c) == \E i \in DOMAIN c.values : c.values[i] = PyNone
HasBelow(c, n) == \E i \in DOMAIN c.values : c.values[i] # PyNone /\ c.values[i].value < n
HasAbove(c, n) == \E i \in DOMAIN c.values : c.values[i] # PyNone /\ c.values[i].value > n

(* C12: the range heuristic treats 'amount' like 'revenue': a numeric      *)
(* column whose name contains 'amount' (case-insensitive) fails its check  *)
(* when its minimum is below 0 and also when its maximum exceeds           *)
(* 1,000,000; a numeric column whose name contains neither substring is    *)
(* checked for nulls only.                                                 *)
C12_AmountLikeRevenue ==
    ApiValidated =>
        \A c \in NumericColumns :
            /\ c.name = Amount =>
                  /\ HasBelow(c, 0) => ~SuccessOf(c.name)
                  /\ HasAbove(c, RevenueLimit) => ~SuccessOf(c.name)
            /\ c.name = client_id => (SuccessOf(c.name) <=> ~HasNull(c))

(* C12, amended: a numeric column whose name contains 'amount' fails its   *)
(* check when its minimum is below 0, but its maximum is not checked: it   *)
(* passes iff it has no null and no negative value; only a column whose    *)
(* name contains 'revenue' also fails above 1,000,000; a numeric column    *)
(* whose name contains neither substring is checked for nulls only.        *)
C12_AmountChecksMinimumOnly ==
    ApiValidated =>
        \A c \in NumericColumns :
            /\ c.name = Amount => (SuccessOf(c.name) <=> ~HasNull(c) /\ ~HasBelow(c, 0))
            /\ c.name = revenue =>
                  (SuccessOf(c.name) <=> ~HasNull(c) /\ ~HasBelow(c, 0) /\ ~HasAbove(c, RevenueLimit))
            /\ c.name = client_id => (SuccessOf(c.name) <=> ~HasNull(c))

\* An 'Amount' column above 1,000,000 that passes.
C12_Witness ==
    /\ ApiValidated
    /\ \E c \in NumericColumns :
          /\ c.name = Amount
          /\ HasAbove(c, RevenueLimit)
          /\ ~HasBelow(c, 0)
          /\ SuccessOf(c.name)

\* A result that is not the dict of an except handler nor the 'not found'
\* dict: one of the two functions has returned its validation_result.
NonErrorResult ==
    /\ ret # {}
    /\ call.op \in {"validate_api_data", "validate_database_table"}
    /\ "results" \in DOMAIN Result

\* How many of the per-check flags of the result are true.
FlagsSet == Cardinality({j \in DOMAIN Result.results : Result.results[j].success})

\* The aggregate of the claim C13, without its last sentence.
AggregateAgrees ==
    LET st == Result.statistics
    IN  /\ Result.success <=> \A j \in DOMAIN Result.results : Result.results[j].success
        /\ st.evaluated_expectations = Len(Result.results)
        /\ st.evaluated_expectations = st.successful_expectations + st.unsuccessful_expectations
        /\ st.successful_expectations = FlagsSet
        /\ IF st.evaluated_expectations = 0
           THEN st.success_percent = 0
           ELSE st.success_percent * st.evaluated_expectations = st.successful_expectations * 100

(* C13: in every non-error result of validate_api_data and of              *)
(* validate_database_table, success is the logical AND of the per-check    *)
(* success flags, evaluated_expectations == successful_expectations +      *)
(* unsuccessful_expectations == number of results, and success_percent ==  *)
(* successful / evaluated * 100 (0 when nothing was evaluated); hence      *)
(* success = true implies success_percent == 100.                          *)
C13_SuccessMeansHundredPercent ==
    NonErrorResult =>
        /\ AggregateAgrees
        /\ Result.success => Result.statistics.success_percent = 100

(* C13, amended: the same aggregate, but success = true implies            *)
(* success_percent == 100 only when at least one expectation was           *)
(* evaluated; when nothing was evaluated (API data without a column that   *)
(* is checked) success is true and success_percent is 0.                   *)
C13_SuccessMeansHundredPercentOfEvaluated ==
    NonErrorResult =>
        /\ AggregateAgrees
        /\ Result.success =>
              Result.statistics.success_percent =
                  (IF Result.statistics.evaluated_expectations > 0 THEN 100 ELSE 0)

\* Two checks, one of which fails: 50 percent, and no success.
C13_Witness ==
    /\ NonErrorResult
    /\ Len(Result.results) = 2
    /\ FlagsSet = 1
    /\ Result.statistics.success_percent = 50
    /\ ~Result.success

TableValidated == ret # {} /\ call.op = "validate_database_table"

\* The expectation types of the checks that the result lists.
Evaluated ==
    IF "results" \in DOMAIN Result
    THEN {Result.results[j].expectation_config.expectation_type : j \in DOMAIN Result.results}
    ELSE {}

\* What the claim C14 says of the table that was validated.
TableContract ==
    IF call.table_name \in DOMAIN tables
    THEN LET rows == Len(tables[call.table_name])
         IN  /\ "expect_table_row_count_to_be_between" \in Evaluated
             /\ "expect_table_row_count_to_equal" \in Evaluated <=> call.expected_count # {}
             /\ Result.success <=> (rows >= 1 /\ call.expected_count \subseteq {rows})
    ELSE ~Result.success

(* C14: validate_database_table(table, expected_count) always evaluates    *)
(* 'row count > 0' and evaluates 'row count == expected_count' only when   *)
(* expected_count is given; success is true iff the table has at least one *)
(* row and, when expected_count is given, exactly expected_count rows; for *)
(* a table that does not exist it returns success = false.                 *)
C14_TableValidation == TableValidated => TableContract

(* C14, amended: the same, provided that the connection to the database    *)
(* can be made; when it cannot, no check is evaluated and the call returns *)
(* an error result with success = false, whatever the table holds.         *)
C14_TableValidationWhenConnected ==
    TableValidated =>
        IF call.outcome = "ok" THEN TableContract
        ELSE ~Result.success /\ Evaluated = {} /\ "error" \in DOMAIN Result

\* A table of two rows validated against an expected count of two.
C14_Witness ==
    /\ TableValidated
    /\ call.table_name \in DOMAIN tables
    /\ Len(tables[call.table_name]) = 2
    /\ call.expected_count = {2}
    /\ Evaluated = {"expect_table_row_count_to_equal", "expect_table_row_count_to_be_between"}
    /\ Result.success

\* The documents of the result returned at the present second: the result
\* file holding the result, its page, and an index that lists both first.
Persisted ==
    /\ PathExists(files, ValidationResultsFile(Strftime(now)))
    /\ files[ValidationResultsFile(Strftime(now))] = JsonObject(Result)
    /\ PathExists(files, DataDocsFile(Strftime(now)))
    /\ PathExists(files, IndexFile)
    /\ files[IndexFile].json_files # <<>>
    /\ files[IndexFile].json_files[1] = Strftime(now)
    /\ files[IndexFile].html_files # <<>>
    /\ files[IndexFile].html_files[1] = Strftime(now)

(* C15: every validation result that the data quality checker returns,     *)
(* from validate_api_data and from validate_database_table alike, has been *)
(* persisted as a validation_results_<timestamp>.json file with a matching *)
(* data_docs_<timestamp>.html page, and index.html has been regenerated    *)
(* from the existing result files, before the call returns (here: when no  *)
(* write to the documents directory fails).                                *)
C15_ResultsPersisted ==
    (NonErrorResult /\ (call.op = "validate_api_data" => call.io = "ok")) => Persisted

(* C29: validate_database_table closes the database connection it opened   *)
(* before returning on every path: a successful validation, a failed       *)
(* validation, the table-not-found return, and the exception path.         *)
C29_ConnectionClosed == TableValidated => connection = {}

\* The same of the calls that reach the end of the validation.
ConnectionClosedAfterValidation ==
    (TableValidated /\ "results" \in DOMAIN Result) => connection = {}

(***************************************************************************)
(* utils.py: save_json_file and load_json_file, on the text of the file.   *)
(* The text is the sequence of its characters.  A JSON-shaped value is     *)
(* None, a bool, an int, a str (PyText, the sequence of its characters), a *)
(* list, or a dict with str keys (the sequence of its items, in insertion  *)
(* order).                                                                 *)
(***************************************************************************)
PyText(chars) == [type |-> "str", chars |-> chars]
PyList(items) == [type |-> "list", items |-> items]
PyDict(pairs) == [type |-> "dict", pairs |-> pairs]

Digits == <<"0", "1", "2", "3", "4", "5", "6", "7", "8", "9">>
Whitespace == {" ", "\n"}

RECURSIVE Decimal(_)
Decimal(n) ==
    IF n < 10 THEN <<Digits[n + 1]>> ELSE Decimal(n \div 10) \o <<Digits[(n % 10) + 1]>>

\* The encoder's escapes; with ensure_ascii=False every other character is
\* written as it is.
Escaped(c) ==
    IF c = "\"" THEN <<"\\", "\"">>
    ELSE IF c = "\\" THEN <<"\\", "\\">>
    ELSE IF c = "\n" THEN <<"\\", "n">>
    ELSE <<c>>

RECURSIVE Flatten(_)
Flatten(seqs) == IF seqs = <<>> THEN <<>> ELSE seqs[1] \o Flatten(Tail(seqs))

Quoted(chars) == <<"\"">> \o Flatten([i \in DOMAIN chars |-> Escaped(chars[i])]) \o <<"\"">>

\* The newline and the indentation that indent=2 puts before an item.
NewLine(level) == <<"\n">> \o [i \in 1..(2 * level) |-> " "]

\* An encoder that writes the items of a list with nothing between them.
RECURSIVE json_dump_unseparated(_, _)
json_dump_unseparated(obj, level) ==
    IF obj.type = "NoneType" THEN <<"n", "u", "l", "l">>
    ELSE IF obj.type = "bool" THEN (IF obj.flag THEN <<"t", "r", "u", "e">> ELSE <<"f", "a", "l", "s", "e">>)
    ELSE IF obj.type = "int" THEN (IF obj.value < 0 THEN <<"-">> \o Decimal(-obj.value) ELSE Decimal(obj.value))
    ELSE IF obj.type = "str" THEN Quoted(obj.chars)
    ELSE IF obj.type = "list"
    THEN <<"[">> \o Flatten([i \in DOMAIN obj.items |-> json_dump_unseparated(obj.items[i], level + 1)]) \o <<"]">>
    ELSE <<"{">> \o Flatten([i \in DOMAIN obj.pairs |-> Quoted(obj.pairs[i].key) \o <<":">> \o json_dump_unseparated(obj.pairs[i].value, level + 1)]) \o <<"}">>

\* json.dump(obj, f, indent=2, ensure_ascii=False), at a nesting level.
RECURSIVE json_dump(_, _)
json_dump(obj, level) ==
    IF obj.type = "NoneType" THEN <<"n", "u", "l", "l">>
    ELSE IF obj.type = "bool" THEN (IF obj.flag THEN <<"t", "r", "u", "e">> ELSE <<"f", "a", "l", "s", "e">>)
    ELSE IF obj.type = "int" THEN (IF obj.value < 0 THEN <<"-">> \o Decimal(-obj.value) ELSE Decimal(obj.value))
    ELSE IF obj.type = "str" THEN Quoted(obj.chars)
    ELSE IF obj.type = "list"
    THEN IF obj.items = <<>> THEN <<"[", "]">>
         ELSE <<"[">>
              \o Flatten([i \in DOMAIN obj.items |->
                             (IF i > 1 THEN <<",">> ELSE <<>>) \o NewLine(level + 1)
                             \o json_dump(obj.items[i], level + 1)])
              \o NewLine(level) \o <<"]">>
    ELSE IF obj.pairs = <<>> THEN <<"{", "}">>
         ELSE <<"{">>
              \o Flatten([i \in DOMAIN obj.pairs |->
                             (IF i > 1 THEN <<",">> ELSE <<>>) \o NewLine(level + 1)
                             \o Quoted(obj.pairs[i].key) \o <<":", " ">>
                             \o json_dump(obj.pairs[i].value, level + 1)])
              \o NewLine(level) \o <<"}">>

\* The decoder: each function reads from a position of the text and gives
\* the value read and the position after it, or gives up.  Fractions and
\* \u escapes, which the encoder never writes for the values of the model,
\* are left out.
NoParse == [ok |-> FALSE]
Parsed(value, next) == [ok |-> TRUE, value |-> value, next |-> next]

At(text, i) == IF i <= Len(text) THEN text[i] ELSE "end of text"

RECURSIVE SkipWhitespace(_, _)
SkipWhitespace(text, i) ==
    IF At(text, i) \in Whitespace THEN SkipWhitespace(text, i + 1) ELSE i

IsDigit(c) == \E d \in DOMAIN Digits : Digits[d] = c
DigitValue(c) == (CHOOSE d \in DOMAIN Digits : Digits[d] = c) - 1

\* [1-9]\d* read from position i, with the value of the digits before it.
RECURSIVE ParseDigits(_, _, _)
ParseDigits(text, i, value) ==
    IF IsDigit(At(text, i))
    THEN ParseDigits(text, i + 1, value * 10 + DigitValue(At(text, i)))
    ELSE Parsed(value, i)

\* -?(0|[1-9]\d*)
ParseNumber(text, i) ==
    LET negative == At(text, i) = "-"
        first == IF negative THEN i + 1 ELSE i
        digits == IF At(text, first) = "0" THEN Parsed(0, first + 1)
                  ELSE ParseDigits(text, first, 0)
    IN  IF ~IsDigit(At(text, first)) THEN NoParse
        ELSE Parsed(PyInt(IF negative THEN -digits.value ELSE digits.value), digits.next)

\* The characters of a string, from the position after its opening quote.
RECURSIVE ParseChars(_, _)
ParseChars(text, i) ==
    LET c == At(text, i)
        rest == ParseChars(text, IF c = "\\" THEN i + 2 ELSE i + 1)
        decoded == IF c # "\\" THEN c ELSE IF At(text, i + 1) = "n" THEN "\n" ELSE At(text, i + 1)
    IN  IF c = "\"" THEN Parsed(<<>>, i + 1)
        ELSE IF c \in {"end of text", "\n"} THEN NoParse
        ELSE IF c = "\\" /\ At(text, i + 1) \notin {"\"", "\\", "n"} THEN NoParse
        ELSE IF ~rest.ok THEN NoParse
        ELSE Parsed(<<decoded>> \o rest.value, rest.next)

ParseLiteral(text, i, word, value) ==
    IF i + Len(word) - 1 <= Len(text) /\ SubSeq(text, i, i + Len(word) - 1) = word
    THEN Parsed(value, i + Len(word))
    ELSE NoParse

\* dict[key] = value for the items read, a later value of a key replacing
\* the earlier one in its place.
PutFirst(key, value, pairs) ==
    LET again == {j \in DOMAIN pairs : pairs[j].key = key}
    IN  IF again = {} THEN <<[key |-> key, value |-> value]>> \o pairs
        ELSE <<[key |-> key, value |-> pairs[CHOOSE j \in again : TRUE].value]>>
             \o SelectSeq(pairs, LAMBDA pair : pair.key # key)

RECURSIVE ParseValue(_, _), ParseItems(_, _), ParseMembers(_, _)
ParseValue(text, i) ==
    LET c == At(text, i)
        inside == SkipWhitespace(text, i + 1)
        string == ParseChars(text, i + 1)
        items == ParseItems(text, inside)
        members == ParseMembers(text, inside)
    IN  IF c = "n" THEN ParseLiteral(text, i, <<"n", "u", "l", "l">>, PyNone)
        ELSE IF c = "t" THEN ParseLiteral(text, i, <<"t", "r", "u", "e">>, PyBool(TRUE))
        ELSE IF c = "f" THEN ParseLiteral(text, i, <<"f", "a", "l", "s", "e">>, PyBool(FALSE))
        ELSE IF c = "-" \/ IsDigit(c) THEN ParseNumber(text, i)
        ELSE IF c = "\"" THEN (IF string.ok THEN Parsed(PyText(string.value), string.next) ELSE NoParse)
        ELSE IF c = "[" THEN (IF At(text, inside) = "]" THEN Parsed(PyList(<<>>), inside + 1)
                              ELSE IF items.ok THEN Parsed(PyList(items.value), items.next)
                              ELSE NoParse)
        ELSE IF c = "{" THEN (IF At(text, inside) = "}" THEN Parsed(PyDict(<<>>), inside + 1)
                              ELSE IF members.ok THEN Parsed(PyDict(members.value), members.next)
                              ELSE NoParse)
        ELSE NoParse

\* The items of a list up to its closing bracket.
ParseItems(text, i) ==
    LET item == ParseValue(text, i)
        after == SkipWhitespace(text, item.next)
        rest == ParseItems(text, SkipWhitespace(text, after + 1))
    IN  IF ~item.ok THEN NoParse
        ELSE IF At(text, after) = "]" THEN Parsed(<<item.value>>, after + 1)
        ELSE IF At(text, after) # "," THEN NoParse
        ELSE IF ~rest.ok THEN NoParse
        ELSE Parsed(<<item.value>> \o rest.value, rest.next)

\* The items of a dict up to its closing brace.
ParseMembers(text, i) ==
    LET key == ParseChars(text, i + 1)
        colon == SkipWhitespace(text, key.next)
        value == ParseValue(text, SkipWhitespace(text, colon + 1))
        after == SkipWhitespace(text, value.next)
        rest == ParseMembers(text, SkipWhitespace(text, after + 1))
    IN  IF At(text, i) # "\"" \/ ~key.ok THEN NoParse
        ELSE IF At(text, colon) # ":" THEN NoParse
        ELSE IF ~value.ok THEN NoParse
        ELSE IF At(text, after) = "}" THEN Parsed(<<[key |-> key.value, value |-> value.value]>>, after + 1)
        ELSE IF At(text, after) # "," THEN NoParse
        ELSE IF ~rest.ok THEN NoParse
        ELSE Parsed(PutFirst(key.value, value.value, rest.value), rest.next)

\* json.load: {} when it raises json.JSONDecodeError.
json_load(text) ==
    LET r == ParseValue(text, SkipWhitespace(text, 1))
    IN  IF r.ok /\ SkipWhitespace(text, r.next) > Len(text) THEN {r.value} ELSE {}

\* A file kept as its text.
TextFile(chars) == [text |-> chars]

\* What a failed write leaves of the text: the file that open() truncated,
\* or the first half of the text.
CutShort(chars) == {<<>>, SubSeq(chars, 1, Len(chars) \div 2)}

\* save_json_file on the text: what it returns and the files it leaves.
save_json_text(fs, data, filepath, io, left) ==
    IF io = "ok"
    THEN [returns |-> TRUE, files |-> WriteFile(fs, filepath, TextFile(json_dump(data, 0)))]
    ELSE IF io = "write fails"
    THEN [returns |-> FALSE, files |-> WriteFile(fs, filepath, TextFile(left))]
    ELSE [returns |-> FALSE, files |-> fs]

\* load_json_file: except Exception as e
LoadExcept(e) == Returned(PyNone)

load_json_file(fs, filepath) ==
    IF ~PathExists(fs, filepath) THEN LoadExcept("FileNotFoundError")
    ELSE IF json_load(fs[filepath].text) = {} THEN LoadExcept("JSONDecodeError")
    ELSE Returned(CHOOSE value \in json_load(fs[filepath].text) : TRUE)

(***************************************************************************)
(* SpecJson: a JSON-shaped value is built item by item, saved, and loaded; *)
(* the path may hold a file that is no JSON before.                        *)
(***************************************************************************)
\* The nodes of the value: its containers and its scalars.
MaxJsonSize == 3

JsonPath == [prefix |-> "saved", ext |-> "json"]

Scalars ==
    {PyNone, PyBool(TRUE), PyBool(FALSE), PyInt(0), PyInt(-12),
     PyText(<<"a", "\"", "\\", "\n", "U+00E9">>)}

Keys == {<<"k">>, <<"\"", "U+00E9">>}

Items == Scalars \cup {PyList(<<>>), PyDict(<<>>)}

\* Texts that are no JSON: an empty file, a literal cut short, a list with
\* a trailing comma, a dict with an unquoted key.
UnparsableTexts ==
    {<<>>, <<"n", "u", "l">>, <<"[", "1", ",", "]">>, <<"{", "k", ":", "1", "}">>}

RECURSIVE SumOf(_)
SumOf(ns) == IF ns = <<>> THEN 0 ELSE ns[1] + SumOf(Tail(ns))

RECURSIVE JsonSize(_)
JsonSize(obj) ==
    IF obj.type = "list" THEN 1 + SumOf([i \in DOMAIN obj.items |-> JsonSize(obj.items[i])])
    ELSE IF obj.type = "dict" THEN 1 + SumOf([i \in DOMAIN obj.pairs |-> JsonSize(obj.pairs[i].value)])
    ELSE 1

\* The values that one more item makes: appended to the value, or added
\* to the last of its items.
RECURSIVE Extensions(_)
Extensions(obj) ==
    IF obj.type = "list"
    THEN {PyList(Append(obj.items, item)) : item \in Items}
         \cup (IF obj.items = <<>> THEN {}
               ELSE {PyList([obj.items EXCEPT ![Len(obj.items)] = e]) : e \in Extensions(obj.items[Len(obj.items)])})
    ELSE IF obj.type = "dict"
    THEN {PyDict(Append(obj.pairs, [key |-> k, value |-> item])) :
             k \in Keys \ {obj.pairs[j].key : j \in DOMAIN obj.pairs}, item \in Items}
         \cup (IF obj.pairs = <<>> THEN {}
               ELSE {PyDict([obj.pairs EXCEPT ![Len(obj.pairs)].value = e]) : e \in Extensions(obj.pairs[Len(obj.pairs)].value)})
    ELSE {}

JsonInit ==
    /\ RunnerIdle
    /\ files \in {NoFiles} \cup {WriteFile(NoFiles, JsonPath, TextFile(chars)) : chars \in UnparsableTexts}
    /\ tables = NoTables
    /\ connection = {}
    /\ SAMPLE_CLIENTS = <<>>
    /\ input \in Items
    /\ ret = {}
    /\ call = NoCall
    /\ calls = 0
    /\ now = 0

\* The caller builds the value, in a directory that holds no file yet.
JsonItem ==
    /\ call.op = "none"
    /\ files = NoFiles
    /\ JsonSize(input) < MaxJsonSize
    /\ input' \in Extensions(input)
    /\ UNCHANGED <<runner, files, tables, connection, SAMPLE_CLIENTS, ret, call, calls, now>>

SaveJsonFile ==
    /\ call.op = "none"
    /\ \E io \in IoOutcomes, left \in CutShort(json_dump(input, 0)) :
          LET r == save_json_text(files, input, JsonPath, io, left)
          IN  /\ ret' = {r.returns}
              /\ files' = r.files
              /\ call' = [op |-> "save_json_file", io |-> io]
    /\ calls' = calls + 1
    /\ UNCHANGED <<runner, tables, connection, SAMPLE_CLIENTS, input, now>>

\* load_json_file of the path; `saved` tells that the file is the one that
\* a save_json_file returning True has just written.
LoadJsonFile ==
    /\ call.op \in {"none", "save_json_file"}
    /\ LET r == load_json_file(files, JsonPath)
       IN  /\ ret' = r.returns
           /\ call' = [op |-> "load_json_file", escaped |-> r.raises,
                       saved |-> (call.op = "save_json_file" /\ ret = {TRUE})]
    /\ calls' = calls + 1
    /\ UNCHANGED <<runner, files, tables, connection, SAMPLE_CLIENTS, input, now>>

JsonNext == JsonItem \/ SaveJsonFile \/ LoadJsonFile

SpecJson == JsonInit /\ [][JsonNext]_vars

(* C16: for every JSON-shaped structure d (nested dictionaries with string *)
(* keys, lists, strings, integers, booleans, null) and path p, if          *)
(* save_json_file(d, p) returns true then load_json_file(p) returns a      *)
(* structure equal to d; load_json_file of a missing or unparsable file    *)
(* returns None instead of raising.                                        *)
C16_RoundTrip ==
    call.op = "load_json_file" =>
        /\ call.escaped = {}
        /\ call.saved => ret = {input}
        /\ (~PathExists(files, JsonPath) \/ files[JsonPath].text \in UnparsableTexts) => ret = {PyNone}

\* A list in a dict, with a string that needs escapes, saved and loaded.
C16_Witness ==
    /\ call.op = "load_json_file"
    /\ call.saved
    /\ input.type = "dict"
    /\ \E j \in DOMAIN input.pairs :
          /\ input.pairs[j].value.type = "list"
          /\ input.pairs[j].value.items # <<>>
          /\ input.pairs[j].value.items[1].type = "str"
    /\ ret = {input}

(***************************************************************************)
(* db_utils.py: loading a CSV file into a table.  A CSV file is the        *)
(* sequence of its data rows, or {} when pd.read_csv raises (no file, no   *)
(* header).                                                                *)
(***************************************************************************)
DropTable(db, table_name) == [n \in DOMAIN db \ {table_name} |-> db[n]]
PutTable(db, table_name, rows) ==
    [n \in DOMAIN db \cup {table_name} |-> IF n = table_name THEN rows ELSE db[n]]

\* What the environment makes fail in a load: nothing, pandas' to_sql, or
\* one of the statements of the SQL Server path (the last INSERT).
LoadFailures(use_sql_server) ==
    IF use_sql_server THEN {"none", "drop", "create", "insert"} ELSE {"none", "to_sql"}

\* df.to_sql(..., if_exists='replace') that adds the rows to the table.
ToSqlAppending(db, df, table_name, if_exists, failure) ==
    IF failure = "to_sql" \/ (if_exists = "fail" /\ table_name \in DOMAIN db)
    THEN [returns |-> FALSE, tables |-> db]
    ELSE [returns |-> TRUE,
          tables |-> PutTable(db, table_name,
                              (IF table_name \in DOMAIN db THEN db[table_name] ELSE <<>>) \o df)]

\* df.to_sql(table_name, self.connection, if_exists=if_exists, index=False)
ToSql(db, df, table_name, if_exists, failure) ==
    IF failure = "to_sql" \/ (if_exists = "fail" /\ table_name \in DOMAIN db)
    THEN [returns |-> FALSE, tables |-> db]
    ELSE [returns |-> TRUE,
          tables |-> PutTable(db, table_name,
                              (IF if_exists = "append" /\ table_name \in DOMAIN db
                               THEN db[table_name] ELSE <<>>) \o df)]

\* _load_df_to_sql_server: DROP TABLE IF EXISTS (its failure is ignored),
\* CREATE TABLE (which fails on a table that exists), one INSERT per row.
load_df_to_sql_server(db, df, table_name, if_exists, failure) ==
    LET dropped == IF if_exists = "replace" /\ failure # "drop" THEN DropTable(db, table_name) ELSE db
    IN  IF failure = "create" \/ table_name \in DOMAIN dropped
        THEN [returns |-> FALSE, tables |-> dropped]
        ELSE IF failure = "insert" /\ df # <<>>
        THEN [returns |-> FALSE, tables |-> PutTable(dropped, table_name, SubSeq(df, 1, Len(df) - 1))]
        ELSE [returns |-> TRUE, tables |-> PutTable(dropped, table_name, df)]

\* load_csv_to_table: what it returns, the database and the connection.
load_csv_to_table(db, conn, use_sql_server, csv, table_name, if_exists, outcome, failure) ==
    LET c == EnsureConnection(conn, outcome)
        df == CHOOSE rows \in csv : TRUE
        loaded == IF use_sql_server
                  THEN load_df_to_sql_server(db, df, table_name, if_exists, failure)
                  ELSE ToSql(db, df, table_name, if_exists, failure)
    IN  IF csv = {} THEN [returns |-> FALSE, tables |-> db, connection |-> conn]
        ELSE IF c = {} THEN [returns |-> FALSE, tables |-> db, connection |-> c]
        ELSE [returns |-> loaded.returns, tables |-> loaded.tables, connection |-> c]

\* The attributes of a DatabaseManager: those that __init__ assigns and the
\* methods of the class.
DatabaseManagerAttributes ==
    {"config", "connection", "connect", "_connect_sqlite", "_connect_sql_server",
     "disconnect", "execute_query", "execute_non_query", "load_csv_to_table",
     "_load_df_to_sql_server", "_generate_create_table_query", "get_table_count",
     "get_table_info", "setup_sample_data"}

(***************************************************************************)
(* SpecDb: one DatabaseManager from get_db_manager, on a database that is  *)
(* empty at first; its methods are called in any order, with the           *)
(* configuration (SQLite or SQL Server) fixed at the start.                *)
(***************************************************************************)
CsvFiles == {{}} \cup {{Table(n)} : n \in 0..MaxTableRows}

DbInit ==
    /\ RunnerIdle
    /\ files = NoFiles
    /\ tables = NoTables
    /\ connection = {}
    /\ SAMPLE_CLIENTS = <<>>
    /\ input \in {[USE_SQL_SERVER |-> b] : b \in BOOLEAN}
    /\ ret = {}
    /\ call = NoCall
    /\ calls = 0
    /\ now = 0

\* The end of a method of the manager.
DbReturn(c, outcome, db, conn) ==
    /\ call' = c
    /\ ret' = outcome.returns
    /\ tables' = db
    /\ connection' = conn

\* What no method of the manager changes.
DbFrame == UNCHANGED <<runner, files, SAMPLE_CLIENTS, input, calls, now>>

Connect ==
    /\ DbFrame
    /\ \E outcome \in ConnectOutcomes :
          LET r == connect(connection, outcome)
          IN  DbReturn([op |-> "connect", escaped |-> {}], Returned(r.returns), tables, r.connection)

Disconnect ==
    /\ DbFrame
    /\ DbReturn([op |-> "disconnect", escaped |-> {}, held |-> connection], Returned(PyNone),
                tables, disconnect(connection))

LoadCsvToTable ==
    /\ DbFrame
    /\ \E csv \in CsvFiles, table_name \in TableNames, if_exists \in {"replace", "append", "fail"}, outcome \in ConnectOutcomes, failure \in LoadFailures(input.USE_SQL_SERVER) :
        LET r == load_csv_to_table(tables, connection, input.USE_SQL_SERVER, csv, table_name, if_exists, outcome, failure)
        IN  /\ \A n \in DOMAIN r.tables : Len(r.tables[n]) <= MaxTableRows
            /\ DbReturn([op |-> "load_csv_to_table", escaped |-> {}, csv |-> csv,
                         table_name |-> table_name, if_exists |-> if_exists,
                         held |-> IF table_name \in DOMAIN tables THEN {Len(tables[table_name])} ELSE {}],
                        Returned(r.returns), r.tables, r.connection)

GetTableCount ==
    /\ DbFrame
    /\ \E table_name \in TableNames, outcome \in ConnectOutcomes :
        LET r == get_table_count(tables, connection, table_name, outcome)
        IN  DbReturn([op |-> "get_table_count", escaped |-> {}, table_name |-> table_name],
                     Returned(r.returns), tables, r.connection)

\* db.is_connected(): the attribute is looked up, then called.
IsConnected ==
    /\ DbFrame
    /\ DbReturn([op |-> "is_connected",
                 escaped |-> IF "is_connected" \in DatabaseManagerAttributes THEN {} ELSE {"AttributeError"}],
                IF "is_connected" \in DatabaseManagerAttributes
                THEN Returned(connection # {}) ELSE Raised("AttributeError"),
                tables, connection)

\* execute_query("SELECT * FROM <table_name>"): the rows, None when the
\* connection cannot be made or the statement fails (no such table).
execute_query(db, conn, table_name, outcome) ==
    LET c == EnsureConnection(conn, outcome)
    IN  [returns |-> IF c # {} /\ table_name \in DOMAIN db THEN {db[table_name]} ELSE {},
         connection |-> c]

\* execute_non_query("DELETE FROM <table_name>"), with its commit.
execute_non_query(db, conn, table_name, outcome) ==
    LET c == EnsureConnection(conn, outcome)
    IN  IF c # {} /\ table_name \in DOMAIN db
        THEN [returns |-> TRUE, tables |-> PutTable(db, table_name, <<>>), connection |-> c]
        ELSE [returns |-> FALSE, tables |-> db, connection |-> c]

\* quick_query and quick_count: a manager of their own (get_db_manager),
\* disconnected in the finally; with the result, the connection that the
\* manager opened and the one it holds when the call ends.
quick_query(db, table_name, outcome) ==
    LET r == execute_query(db, {}, table_name, outcome)
    IN  [returns |-> r.returns, opened |-> r.connection, connection |-> disconnect(r.connection)]

quick_count(db, table_name, outcome) ==
    LET r == get_table_count(db, {}, table_name, outcome)
    IN  [returns |-> r.returns, opened |-> r.connection, connection |-> disconnect(r.connection)]

\* The tables asked for: one of them is never loaded.
QueriedTables == TableNames \cup {"missing"}

ExecuteQuery ==
    /\ DbFrame
    /\ \E table_name \in QueriedTables, outcome \in ConnectOutcomes :
        LET r == execute_query(tables, connection, table_name, outcome)
        IN  DbReturn([op |-> "execute_query", escaped |-> {}, table_name |-> table_name],
                     Returned(r.returns), tables, r.connection)

ExecuteNonQuery ==
    /\ DbFrame
    /\ \E table_name \in QueriedTables, outcome \in ConnectOutcomes :
        LET r == execute_non_query(tables, connection, table_name, outcome)
        IN  DbReturn([op |-> "execute_non_query", escaped |-> {}, table_name |-> table_name],
                     Returned(r.returns), r.tables, r.connection)

\* The helpers leave the manager in use as it is.
QuickQuery ==
    /\ DbFrame
    /\ \E table_name \in QueriedTables, outcome \in ConnectOutcomes :
        LET r == quick_query(tables, table_name, outcome)
        IN  DbReturn([op |-> "quick_query", escaped |-> {}, table_name |-> table_name,
                      opened |-> r.opened, left |-> r.connection],
                     Returned(r.returns), tables, connection)

QuickCount ==
    /\ DbFrame
    /\ \E table_name \in QueriedTables, outcome \in ConnectOutcomes :
        LET r == quick_count(tables, table_name, outcome)
        IN  DbReturn([op |-> "quick_count", escaped |-> {}, table_name |-> table_name,
                      opened |-> r.opened, left |-> r.connection],
                     Returned(r.returns), tables, connection)

DbNext ==
    \/ Connect \/ Disconnect \/ LoadCsvToTable \/ GetTableCount \/ IsConnected
    \/ ExecuteQuery \/ ExecuteNonQuery \/ QuickQuery \/ QuickCount

SpecDb == DbInit /\ [][DbNext]_vars

\* load_csv_to_table with if_exists='replace' has returned True.
Reloaded ==
    /\ call.op = "load_csv_to_table"
    /\ call.if_exists = "replace"
    /\ ret = {TRUE}

\* The number of data rows of the CSV file of the call.
CsvRows == Len(CHOOSE rows \in call.csv : TRUE)

(* C17: after load_csv_to_table(csv, table) with the default               *)
(* if_exists='replace' returns true, get_table_count(table) equals the     *)
(* number of data rows of the CSV, whatever the table held before,         *)
(* including after any number of repeated loads of the same or different   *)
(* CSV files (a reload replaces, never appends).                           *)
C17_ReloadReplaces ==
    Reloaded =>
        \A outcome \in ConnectOutcomes :
            get_table_count(tables, connection, call.table_name, outcome).returns = {CsvRows}

\* A table that held two rows, reloaded from a CSV file of one row.
C17_Witness ==
    /\ Reloaded
    /\ call.held = {2}
    /\ CsvRows = 1
    /\ get_table_count(tables, connection, call.table_name, "ok").returns = {1}

(* C18: a DatabaseManager obtained from get_db_manager reports             *)
(* is_connected() true after connect() has returned true and until         *)
(* disconnect() is called; after disconnect() it holds no connection, and  *)
(* a further disconnect() is a no-op.                                      *)
C18_ConnectionLifecycle ==
    /\ (call.op = "is_connected" /\ connection # {}) => (call.escaped = {} /\ ret = {TRUE})
    /\ call.op = "disconnect" => connection = {}

\* A helper has returned.
QuickReturned == call.op \in {"quick_query", "quick_count"}

(* C23: a connection that a DatabaseManager opens, explicitly or lazily    *)
(* inside execute_query / execute_non_query, stays open until disconnect() *)
(* is called; quick_query and quick_count disconnect on every path (rows   *)
(* returned, None on failure), so no connection of theirs remains open     *)
(* after they return, and the manager in use keeps its own.                *)
C23_OpenUntilDisconnect ==
    [][/\ (connection # {} /\ connection' = {}) => call'.op = "disconnect"
       /\ call'.op \in {"quick_query", "quick_count"} =>
             /\ call'.left = {}
             /\ connection' = connection]_vars

\* quick_query that opened a connection and returned the rows of a table,
\* beside a manager whose connection was opened lazily and is still open.
C23_Witness ==
    /\ call.op = "quick_query"
    /\ call.opened # {}
    /\ call.left = {}
    /\ ret # {}
    /\ connection # {}

(***************************************************************************)
(* fastapi_mock_api.py: the mock API.  A revenue is a number of cents; a   *)
(* variation drawn by random.uniform(-0.05, 0.05) is a number of percent,  *)
(* one of the two ends of the interval.  SAMPLE_CLIENTS is a list of dict  *)
(* objects: a client of a list copied with list.copy() is the object of    *)
(* SAMPLE_CLIENTS at the same index.                                       *)
(***************************************************************************)
StaticClients ==
    <<[client_id |-> 1, client_name |-> "Client A", revenue |-> 15000050,
       region |-> "North", active |-> TRUE, last_updated |-> "2024-01-15T10:30:00Z"],
      [client_id |-> 2, client_name |-> "Client B", revenue |-> 27500075,
       region |-> "South", active |-> TRUE, last_updated |-> "2024-01-14T14:20:00Z"],
      [client_id |-> 3, client_name |-> "Client C", revenue |-> 8900025,
       region |-> "East", active |-> FALSE, last_updated |-> "2024-01-13T09:15:00Z"],
      [client_id |-> 4, client_name |-> "Client D", revenue |-> 42000000,
       region |-> "West", active |-> TRUE, last_updated |-> "2024-01-16T16:45:00Z"],
      [client_id |-> 5, client_name |-> "Client E", revenue |-> 19500030,
       region |-> "Central", active |-> TRUE, last_updated |-> "2024-01-12T11:30:00Z"]>>

Variations == {-5, 5}

\* round(revenue * (1 + variation), 2), in cents: to the nearest cent, a
\* tie going to the even one.
Jitter(cents, variation) ==
    LET q == cents + ((cents * variation) \div 100)
        r == (cents * variation) % 100
    IN  IF r < 50 THEN q
        ELSE IF r > 50 THEN q + 1
        ELSE IF q % 2 = 0 THEN q ELSE q + 1

\* The indices of the objects of `clients` after the optional filter.
Selected(sample, active_only) ==
    {i \in DOMAIN sample : ~active_only \/ sample[i].active}

\* The list of the objects at the indices, in the order of the list.
RECURSIVE ListOf(_, _)
ListOf(sample, indices) ==
    IF indices = {} THEN <<>>
    ELSE LET i == CHOOSE j \in indices : \A k \in indices : j <= k
         IN  <<sample[i]>> \o ListOf(sample, indices \ {i})

\* get_clients: the loop assigns client["revenue"] on the objects of
\* SAMPLE_CLIENTS, which the response then lists.
get_clients(sample, active_only, variation, t) ==
    LET jittered == [i \in DOMAIN sample |->
                        IF i \in Selected(sample, active_only)
                        THEN [sample[i] EXCEPT !.revenue = Jitter(sample[i].revenue, variation[i])]
                        ELSE sample[i]]
        clients == ListOf(jittered, Selected(sample, active_only))
    IN  [outcome |-> Returned([data |-> clients,
                               count |-> Len(clients),
                               timestamp |-> IsoFormat(t),
                               filters |-> [active_only |-> active_only]]),
         SAMPLE_CLIENTS |-> jittered]

\* get_client: the revenue is assigned on a copy of the dict.
get_client(sample, id, variation, t) ==
    LET found == {i \in DOMAIN sample : sample[i].client_id = id}
        client == sample[CHOOSE i \in found : \A k \in found : i <= k]
    IN  [outcome |-> IF found = {} THEN Raised("HTTPException 404")
                     ELSE Returned([data |-> [client EXCEPT !.revenue = Jitter(client.revenue, variation)],
                                    timestamp |-> IsoFormat(t)]),
         SAMPLE_CLIENTS |-> sample]

(***************************************************************************)
(* SpecApi: the mock API serves GET /clients and GET /clients/{id} in any  *)
(* order, one request at a time.                                           *)
(***************************************************************************)
MaxRequests == 2

ClientIds == {1, 3, 6}

ApiInit ==
    /\ RunnerIdle
    /\ files = NoFiles
    /\ tables = NoTables
    /\ connection = {}
    /\ SAMPLE_CLIENTS = StaticClients
    /\ input = <<>>
    /\ ret = {}
    /\ call = NoCall
    /\ calls = 0
    /\ now = 0

\* The response is sent: what the handler returned or raised.
Respond(c, r) ==
    /\ call' = [c EXCEPT !.escaped = r.outcome.raises]
    /\ ret' = r.outcome.returns
    /\ SAMPLE_CLIENTS' = r.SAMPLE_CLIENTS
    /\ calls' = calls + 1

GetClients ==
    /\ calls < MaxRequests
    /\ \E active_only \in BOOLEAN :
          \E variation \in [Selected(SAMPLE_CLIENTS, active_only) -> Variations] :
              Respond([op |-> "get_clients", escaped |-> {}, active_only |-> active_only],
                      get_clients(SAMPLE_CLIENTS, active_only, variation, now))
    /\ UNCHANGED <<runner, files, tables, connection, input, now>>

GetClient ==
    /\ calls < MaxRequests
    /\ \E id \in ClientIds, variation \in Variations :
          Respond([op |-> "get_client", escaped |-> {}, id |-> id],
                  get_client(SAMPLE_CLIENTS, id, variation, now))
    /\ UNCHANGED <<runner, files, tables, connection, input, now>>

ApiNext == GetClients \/ GetClient

SpecApi == ApiInit /\ [][ApiNext]_vars

(* C19: handling any sequence of GET /clients and GET /clients/{id}        *)
(* requests leaves the process-wide SAMPLE_CLIENTS records unchanged: no   *)
(* request mutates state that a later request reads, so a response never   *)
(* depends on earlier requests.                                            *)
C19_SampleClientsUnchanged == SAMPLE_CLIENTS = StaticClients

\* The client records of the response.
ReturnedClients ==
    IF ret = {} THEN {}
    ELSE IF call.op = "get_clients" THEN {Result.data[i] : i \in DOMAIN Result.data}
    ELSE {Result.data}

StaticRevenue(id) ==
    StaticClients[CHOOSE i \in DOMAIN StaticClients : StaticClients[i].client_id = id].revenue

\* Within 5 percent of the static revenue, to the cent that the rounding
\* may add.
WithinFivePercent(client) ==
    LET static == StaticRevenue(client.client_id)
        distance == IF client.revenue >= static THEN client.revenue - static ELSE static - client.revenue
    IN  distance * 100 <= static * 5 + 100

(* C20: for every sequence of requests, each revenue value returned by     *)
(* GET /clients or GET /clients/{id} lies within 5 percent of that         *)
(* client's static sample revenue (so the jitter never accumulates from    *)
(* one request to the next) and is non-negative.                           *)
C20_JitterWithinFivePercent ==
    \A client \in ReturnedClients : WithinFivePercent(client) /\ client.revenue >= 0

(***************************************************************************)
(* selenium_tests.py: the browser checks.  A browser session is a record   *)
(* of its state and of the URLs it was sent to; a tester is a record of    *)
(* its driver ({} is None, {i} the i-th session), of the sessions and of   *)
(* the files written.  A page is a record of how it loads and of its       *)
(* elements; an element is a record of what each selector strategy sees of *)
(* it, of whether it is displayed ({} where is_displayed raises) and of    *)
(* its text.                                                               *)
(***************************************************************************)
\* dict.get(key, default)
Get(d, key, default) == IF key \in DOMAIN d THEN d[key] ELSE default

Tester(d, ss, fs) == [driver |-> d, sessions |-> ss, files |-> fs]

SetupOutcomes == {"ok", "Chrome fails", "implicitly_wait fails"}

\* setup_driver: the driver is assigned before implicitly_wait is called.
setup_driver(tester, outcome) ==
    LET started == Tester({Len(tester.sessions) + 1},
                          Append(tester.sessions, [state |-> "open", visited |-> <<>>]),
                          tester.files)
    IN  IF outcome = "ok" THEN [returns |-> TRUE, tester |-> started]
        ELSE IF outcome = "implicitly_wait fails" THEN [returns |-> FALSE, tester |-> started]
        ELSE [returns |-> FALSE, tester |-> tester]

QuitOutcomes == {"ok", "quit fails"}

\* The session of the driver, in a new state.
Session(tester) == CHOOSE i \in tester.driver : TRUE
WithSession(tester, session) ==
    [tester EXCEPT !.sessions = [tester.sessions EXCEPT ![Session(tester)] = session]]

\* A teardown that keeps the driver whose quit() raised.
teardown_driver_keeping(tester, quit) ==
    IF tester.driver = {} THEN tester
    ELSE IF quit = "ok"
    THEN [WithSession(tester, [tester.sessions[Session(tester)] EXCEPT !.state = "quit"])
             EXCEPT !.driver = {}]
    ELSE WithSession(tester, [tester.sessions[Session(tester)] EXCEPT !.state = "quit failed"])

\* teardown_driver: finally: self.driver = None
teardown_driver(tester, quit) ==
    IF tester.driver = {} THEN tester
    ELSE [WithSession(tester, [tester.sessions[Session(tester)] EXCEPT
                                  !.state = IF quit = "ok" THEN "quit" ELSE "quit failed"])
             EXCEPT !.driver = {}]

\* f"{sanitize_filename(name)}_{timestamp}.png" in the screenshots
\* directory; the labels this module passes hold no invalid character.
Screenshot(name, t) ==
    [dir |-> "screenshots", name |-> name, timestamp |-> Strftime(t), ext |-> "png"]

Png == [parses |-> FALSE, png |-> TRUE]

ShotOutcomes == {"saved", "save_screenshot fails", "title fails"}

\* take_screenshot: the path, or {} for the empty string; the file is
\* written before the driver is asked for the URL and the title.
take_screenshot(tester, name, t, shot) ==
    IF tester.driver = {} \/ shot = "save_screenshot fails"
    THEN [returns |-> {}, tester |-> tester]
    ELSE [returns |-> IF shot = "saved" THEN {Screenshot(name, t)} ELSE {},
          tester |-> [tester EXCEPT !.files = WriteFile(tester.files, Screenshot(name, t), Png)]]

\* result["screenshots"].append(screenshot_path), if screenshot_path
Shots(shot) == [screenshots |-> IF shot.returns = {} THEN <<>> ELSE <<CHOOSE path \in shot.returns : TRUE>>,
                tester |-> shot.tester]

\* self.driver.get(url)
Visit(tester, url) ==
    WithSession(tester, [tester.sessions[Session(tester)] EXCEPT !.visited = Append(@, url)])

LoadOutcomes == {"ok", "TimeoutException", "WebDriverException"}

\* By.ID, By.CLASS_NAME, By.TAG_NAME, By.XPATH
By == [id |-> "id", class |-> "class name", tag |-> "tag name", xpath |-> "xpath"]

\* driver.find_element(by, value): the first element that the strategy
\* matches; {} stands for NoSuchElementException.
find_element(page, by, value) ==
    LET matching == {i \in DOMAIN page.elements :
                        by \in DOMAIN page.elements[i].by /\ page.elements[i].by[by] = value}
    IN  IF matching = {} THEN {}
        ELSE {page.elements[CHOOSE i \in matching : \A j \in matching : i <= j]}

TextLimit == 100

\* element.text[:100] if element.text else ""
TextOf(element) == SubSeq(element.text, 1, IF Len(element.text) < TextLimit THEN Len(element.text) ELSE TextLimit)

\* One pass of the loop of validate_page_elements over element_info.
CheckElement(result, page, element_info) ==
    LET element_name == Get(element_info, "name", "unknown")
        selector_type == Get(element_info, "type", "id")
        selector_value == Get(element_info, "value", "")
        found == IF selector_type \in DOMAIN By
                 THEN find_element(page, By[selector_type], selector_value)
                 ELSE {}
        element == CHOOSE e \in found : TRUE
        Put(info) == [n \in DOMAIN result.elements_found \cup {element_name} |->
                         IF n = element_name THEN info ELSE result.elements_found[n]]
    IN  IF selector_type \notin DOMAIN By
        THEN [result EXCEPT !.elements_found = Put([found |-> FALSE, error |-> "Unsupported selector type"]),
                            !.missing_elements = Append(@, element_name)]
        ELSE IF found = {}
        THEN [result EXCEPT !.elements_found = Put([found |-> FALSE]),
                            !.missing_elements = Append(@, element_name)]
        ELSE IF element.displayed = {}
        THEN [result EXCEPT !.elements_found = Put([found |-> FALSE, error |-> "is_displayed"]),
                            !.missing_elements = Append(@, element_name)]
        ELSE [result EXCEPT !.elements_found =
                 Put([found |-> TRUE, visible |-> CHOOSE b \in element.displayed : TRUE,
                      text |-> TextOf(element), tag |-> element.by["tag name"]])]

RECURSIVE CheckElements(_, _, _)
CheckElements(result, page, expected_elements) ==
    IF expected_elements = <<>> THEN result
    ELSE CheckElements(CheckElement(result, page, Head(expected_elements)), page, Tail(expected_elements))

\* all_found and len(result["missing_elements"]) == 0
AllFound(result) ==
    /\ \A n \in DOMAIN result.elements_found :
          /\ Get(result.elements_found[n], "found", FALSE)
          /\ Get(result.elements_found[n], "visible", FALSE)
    /\ Len(result.missing_elements) = 0

\* validate_page_elements: what it returns and the tester it leaves.  o
\* holds the outcome of each call of the driver and the seconds it takes.
validate_page_elements(tester, page, url, expected_elements, t, o) ==
    LET result == [success |-> FALSE, elements_found |-> <<>>, missing_elements |-> <<>>,
                   screenshots |-> <<>>, errors |-> <<>>, execution_time |-> o.elapsed]
        setup == IF tester.driver = {} THEN setup_driver(tester, o.setup)
                 ELSE [returns |-> TRUE, tester |-> tester]
        visited == Visit(setup.tester, url)
        failed == Shots(take_screenshot(visited, "element_validation_error", t, o.shot))
        loaded == Shots(take_screenshot(visited, "page_loaded", t, o.shot))
        checked == CheckElements(result, page, expected_elements)
        validated == Shots(take_screenshot(loaded.tester, "elements_validated", t, o.shot))
    IN  IF ~setup.returns
        THEN [returns |-> [result EXCEPT !.errors = <<"Failed to setup WebDriver">>],
              tester |-> setup.tester]
        ELSE IF page.loads # "ok"
        THEN [returns |-> [result EXCEPT !.errors = <<"Error during element validation">>,
                                         !.screenshots = failed.screenshots],
              tester |-> failed.tester]
        ELSE [returns |-> [checked EXCEPT !.screenshots = loaded.screenshots \o validated.screenshots,
                                          !.success = AllFound(checked)],
              tester |-> validated.tester]

\* validate_elements: a tester of its own, torn down in the finally.
validate_elements(fs, ss, page, url, elements, t, o) ==
    LET validated == validate_page_elements(Tester({}, ss, fs), page, url, elements, t, o)
    IN  [returns |-> validated.returns, tester |-> teardown_driver(validated.tester, o.quit)]

\* str.replace(',', '')
RECURSIVE WithoutCommas(_)
WithoutCommas(text) ==
    IF text = <<>> THEN <<>>
    ELSE IF Head(text) = "," THEN WithoutCommas(Tail(text))
    ELSE <<Head(text)>> \o WithoutCommas(Tail(text))

\* The digits of text from position i on.
RECURSIVE DigitsAt(_, _)
DigitsAt(text, i) ==
    IF IsDigit(At(text, i)) THEN <<text[i]>> \o DigitsAt(text, i + 1) ELSE <<>>

\* float(re.search(r'[\d,]+\.?\d*', text).group()) of a text without
\* commas: the first run of digits and the digits after its point; {} where
\* nothing matches.
RevenueValue(text) ==
    LET starts == {i \in DOMAIN text : IsDigit(text[i])}
        i == CHOOSE j \in starts : \A k \in starts : j <= k
        whole == DigitsAt(text, i)
        point == i + Len(whole)
    IN  IF starts = {} THEN {}
        ELSE {[whole |-> ParseDigits(whole, 1, 0).value,
               fraction |-> IF At(text, point) = "." THEN DigitsAt(text, point + 1) ELSE <<>>]}

\* revenue_value > 0
Positive(revenue_value) ==
    \/ revenue_value.whole > 0
    \/ \E i \in DOMAIN revenue_value.fraction : revenue_value.fraction[i] # "0"

ClientA == <<"C", "l", "i", "e", "n", "t", " ", "A">>

\* The loop over the client cards: "raises" where a card raises something
\* other than NoSuchElementException; a card without its name or without
\* its revenue element is passed over.  strip() changes neither test.
RECURSIVE FindClientA(_, _)
FindClientA(client_cards, client_a_found) ==
    IF client_cards = <<>>
    THEN [raises |-> FALSE, client_a_found |-> client_a_found, revenue_value |-> {}]
    ELSE LET card == Head(client_cards)
         IN  IF card.stale THEN [raises |-> TRUE]
             ELSE IF card.name = {} THEN FindClientA(Tail(client_cards), client_a_found)
             ELSE IF ~Contains(ClientA, CHOOSE n \in card.name : TRUE)
             THEN FindClientA(Tail(client_cards), client_a_found)
             ELSE IF card.revenue = {} THEN FindClientA(Tail(client_cards), TRUE)
             ELSE [raises |-> FALSE, client_a_found |-> TRUE,
                   revenue_value |-> RevenueValue(WithoutCommas(CHOOSE r \in card.revenue : TRUE))]

\* validate_dashboard_page: what it returns and the tester it leaves.
validate_dashboard_page(tester, page, url, t, o) ==
    LET result == [success |-> FALSE, client_a_found |-> FALSE, revenue_value |-> {},
                   revenue_valid |-> FALSE, screenshots |-> <<>>, errors |-> <<>>,
                   execution_time |-> o.elapsed]
        setup == IF tester.driver = {} THEN setup_driver(tester, o.setup)
                 ELSE [returns |-> TRUE, tester |-> tester]
        visited == Visit(setup.tester, url)
        ShotOf(name) == Shots(take_screenshot(visited, name, t, o.shot))
        loaded == Shots(take_screenshot(visited, "dashboard_loaded", t, o.shot))
        ThenShot(name) == Shots(take_screenshot(loaded.tester, name, t, o.shot))
        found == FindClientA(page.cards, FALSE)
        revenue_valid == found.revenue_value # {} /\ Positive(CHOOSE v \in found.revenue_value : TRUE)
        shot == ThenShot(IF found.client_a_found THEN "client_a_found" ELSE "client_a_not_found")
    IN  IF ~setup.returns
        THEN [returns |-> [result EXCEPT !.errors = <<"Failed to setup WebDriver">>],
              tester |-> setup.tester]
        ELSE IF page.loads = "TimeoutException"
        THEN [returns |-> [result EXCEPT !.errors = <<"Page load timeout for URL">>,
                                         !.screenshots = ShotOf("page_timeout").screenshots],
              tester |-> ShotOf("page_timeout").tester]
        ELSE IF page.loads # "ok"
        THEN [returns |-> [result EXCEPT !.errors = <<"Unexpected error during UI validation">>,
                                         !.screenshots = ShotOf("unexpected_error").screenshots],
              tester |-> ShotOf("unexpected_error").tester]
        ELSE IF ~page.grid
        THEN [returns |-> [result EXCEPT !.errors = <<"Clients grid not found or not loaded">>,
                                         !.screenshots = loaded.screenshots \o ThenShot("grid_not_found").screenshots],
              tester |-> ThenShot("grid_not_found").tester]
        ELSE IF found.raises
        THEN [returns |-> [result EXCEPT !.errors = <<"Error during client validation">>,
                                         !.screenshots = loaded.screenshots \o ThenShot("validation_error").screenshots],
              tester |-> ThenShot("validation_error").tester]
        ELSE [returns |-> [result EXCEPT !.client_a_found = found.client_a_found,
                                         !.revenue_value = found.revenue_value,
                                         !.revenue_valid = revenue_valid,
                                         !.screenshots = loaded.screenshots \o shot.screenshots,
                                         !.success = found.client_a_found /\ revenue_valid],
              tester |-> shot.tester]

\* validate_dashboard: a tester of its own, torn down in the finally.
validate_dashboard(fs, ss, page, url, t, o) ==
    LET validated == validate_dashboard_page(Tester({}, ss, fs), page, url, t, o)
    IN  [returns |-> validated.returns, tester |-> teardown_driver(validated.tester, o.quit)]

(***************************************************************************)
(* SpecUi: the steps call validate_dashboard and validate_elements, one    *)
(* at a time, on the pages of the mock API.                                *)
(***************************************************************************)
\* The elements of one call of validate_elements.
MaxElements == 2

RECURSIVE Repeat(_, _)
Repeat(c, n) == IF n = 0 THEN <<>> ELSE <<c>> \o Repeat(c, n - 1)

Element(id, class, tag, xpath, displayed, text) ==
    [by |-> ("id" :> id) @@ ("class name" :> class) @@ ("tag name" :> tag) @@ ("xpath" :> xpath),
     displayed |-> displayed, text |-> text]

\* The elements of the dashboard: the grid, a hidden dialog, a spinner
\* that goes stale when asked whether it is displayed, and a long text.
DashboardElements ==
    <<Element("clientsGrid", "grid", "div", "//div", {TRUE}, <<"C", "l", "i", "e", "n", "t", "s">>),
      Element("modal", "hidden", "div", "//div[2]", {FALSE}, <<>>),
      Element("spinner", "loading", "span", "//span", {}, <<>>),
      Element("footer", "note", "p", "//p", {TRUE}, Repeat("x", TextLimit + 1))>>

Card(name, text) == [stale |-> FALSE, name |-> name, revenue |-> text]
StaleCard == [stale |-> TRUE]

CardA(text) == Card({ClientA}, text)
CardB == Card({<<"C", "l", "i", "e", "n", "t", " ", "B">>}, {<<"$", "2", "7", "5", ",", "0", "0", "0", ".", "7", "5">>})

\* The client cards of the dashboard, as the script of the page fills them.
CardLists ==
    {<<>>,
     <<CardB, CardA({<<"$", "1", "5", "0", ",", "0", "0", "0", ".", "5", "0">>})>>,
     <<CardA({<<"$", "0", ".", "0", "0">>})>>,
     <<CardA({}), CardA({<<"N", "/", "A">>})>>,
     <<Card({}, {}), CardA({<<"1", "2", " ", "U", "S", "D">>})>>,
     <<CardB, StaleCard>>}

Pages ==
    {[loads |-> l, grid |-> g, cards |-> c, elements |-> DashboardElements] :
        l \in LoadOutcomes, g \in BOOLEAN, c \in CardLists}

\* The elements that a step may ask for: each key may be left out.
ElementInfos ==
    {[name |-> "grid", type |-> "id", value |-> "clientsGrid"],
     [name |-> "modal", type |-> "id", value |-> "modal"],
     [name |-> "grid", type |-> "class", value |-> "hidden"],
     [name |-> "spinner", type |-> "xpath", value |-> "//span"],
     [name |-> "banner", type |-> "id", value |-> "banner"],
     [name |-> "grid", type |-> "css", value |-> "#clientsGrid"],
     [type |-> "tag", value |-> "p"],
     [value |-> "modal"],
     [name |-> "grid"]}

DashboardUrl == "http://127.0.0.1:8001/dashboard"

\* The outcomes of the calls of the driver during one check.
DriverOutcomes ==
    [setup : SetupOutcomes, shot : ShotOutcomes, quit : QuitOutcomes, elapsed : 0..1]

UiInit ==
    /\ RunnerIdle
    /\ files = NoFiles
    /\ tables = NoTables
    /\ connection = {}
    /\ SAMPLE_CLIENTS = <<>>
    /\ input = <<>>
    /\ ret = {}
    /\ call = NoCall
    /\ calls = 0
    /\ now = 0

UiFrame == UNCHANGED <<reports, metadata, launched, tables, connection, SAMPLE_CLIENTS, context, processes>>

\* The check has returned: its result and the tester it leaves behind.
Checked(c, r, elapsed) ==
    /\ call' = c
    /\ ret' = {r.returns}
    /\ driver' = r.tester.driver
    /\ sessions' = r.tester.sessions
    /\ files' = r.tester.files
    /\ calls' = calls + 1
    /\ now' = now + elapsed

\* A step adds an element to the list it will ask for.
ExpectElement ==
    /\ UiFrame
    /\ ret = {}
    /\ Len(input) < MaxElements
    /\ \E element_info \in ElementInfos : input' = Append(input, element_info)
    /\ UNCHANGED <<ret, call, calls, now, driver, sessions, files>>

\* Each call makes a tester of its own; a behaviour holds one call.
ValidateElements ==
    /\ UiFrame
    /\ ret = {}
    /\ \E page \in {p \in Pages : p.grid /\ p.cards = <<>>}, o \in DriverOutcomes :
          Checked([op |-> "validate_elements", escaped |-> {}, page |-> page,
                   elements |-> input, o |-> o],
                  validate_elements(files, sessions, page, DashboardUrl, input, now, o),
                  o.elapsed)
    /\ UNCHANGED input

ValidateDashboard ==
    /\ UiFrame
    /\ ret = {}
    /\ input = <<>>
    /\ \E page \in Pages, o \in DriverOutcomes :
          Checked([op |-> "validate_dashboard", escaped |-> {}, page |-> page, o |-> o],
                  validate_dashboard(files, sessions, page, DashboardUrl, now, o),
                  o.elapsed)
    /\ UNCHANGED input

UiNext == ExpectElement \/ ValidateElements \/ ValidateDashboard

SpecUi == UiInit /\ [][UiNext]_vars

\* validate_elements has returned, having reached the page.
ElementsChecked ==
    /\ ret # {}
    /\ call.op = "validate_elements"
    /\ call.o.setup = "ok"
    /\ call.page.loads = "ok"

\* What the page holds for a requested element.
Lookup(page, element_info) ==
    IF Get(element_info, "type", "id") \in DOMAIN By
    THEN find_element(page, By[Get(element_info, "type", "id")], Get(element_info, "value", ""))
    ELSE {}

FoundAndVisible(page, element_info) ==
    \E element \in Lookup(page, element_info) : element.displayed = {TRUE}

Hidden(page, element_info) ==
    \E element \in Lookup(page, element_info) : element.displayed = {FALSE}

Names(elements) == {Get(elements[i], "name", "unknown") : i \in DOMAIN elements}

(* C21: validate_page_elements returns success = true if and only if every *)
(* requested element of expected_elements was found and is visible; an     *)
(* element that is missing, hidden or requested with an unsupported        *)
(* selector type makes success false and, when not found or unsupported,   *)
(* is listed in missing_elements, and the remaining elements are checked   *)
(* all the same.                                                           *)
C21_SuccessIffAllVisible ==
    ElementsChecked =>
        /\ Result.success <=>
              \A i \in DOMAIN call.elements : FoundAndVisible(call.page, call.elements[i])
        /\ \A i \in DOMAIN call.elements :
              Lookup(call.page, call.elements[i]) = {} =>
                  \E j \in DOMAIN Result.missing_elements :
                      Result.missing_elements[j] = Get(call.elements[i], "name", "unknown")
        /\ DOMAIN Result.elements_found = Names(call.elements)

\* The same of the calls whose elements have names of their own.
SuccessIffAllVisibleOfDistinctNames ==
    (ElementsChecked /\ Cardinality(Names(call.elements)) = Len(call.elements))
        => C21_SuccessIffAllVisible

\* validate_dashboard or validate_elements has returned.
BrowserChecked ==
    /\ ret # {}
    /\ call.op \in {"validate_dashboard", "validate_elements"}

(* C22: validate_dashboard and validate_elements tear down the browser     *)
(* session they created on every path: after either returns the tester     *)
(* holds no driver and quit() was called on every session started, even    *)
(* where quit() itself fails; a failed driver setup yields a result with   *)
(* success = false and an error entry, and no session was sent to the URL. *)
C22_SessionTornDown ==
    BrowserChecked =>
        /\ driver = {}
        /\ \A i \in DOMAIN sessions : sessions[i].state \in {"quit", "quit failed"}
        /\ call.o.setup # "ok" =>
              /\ ~Result.success
              /\ Result.errors = <<"Failed to setup WebDriver">>
              /\ \A i \in DOMAIN sessions : sessions[i].visited = <<>>

\* A driver that was assigned before the setup failed, and whose quit()
\* then raised.
C22_Witness ==
    /\ BrowserChecked
    /\ call.o.setup = "implicitly_wait fails"
    /\ call.o.quit = "quit fails"
    /\ Len(sessions) = 1
    /\ sessions[1].state = "quit failed"
    /\ driver = {}

(***************************************************************************)
(* features/steps/environment.py: behave's hooks.  The context is a        *)
(* function from the names of its attributes to their values; a server     *)
(* process is a record of its state and of the calls made on its Popen     *)
(* object; context.api_server_process is {} for None, {i} for the i-th     *)
(* process spawned.                                                        *)
(***************************************************************************)
\* setattr(context, name, value), and getattr(context, name, default)
SetAttr(ctx, name, value) ==
    [n \in DOMAIN ctx \cup {name} |-> IF n = name THEN value ELSE ctx[n]]

\* db_utils.py, setup_sample_data: the five sample clients, written to
\* data/sample_feed.csv and loaded into the table 'clients'.
SampleFeed == [dir |-> "data", prefix |-> "sample_feed", ext |-> "csv"]
SampleData == Table(5)

setup_sample_data(db, fs, use_sql_server, outcome, failure) ==
    LET loaded == load_csv_to_table(db, {}, use_sql_server, {SampleData}, "clients", "replace", outcome, failure)
    IN  [returns |-> loaded.returns, tables |-> loaded.tables,
         files |-> WriteFile(fs, SampleFeed, [parses |-> FALSE, csv |-> SampleData])]

\* setup_test_database: the manager is disconnected at the end.
setup_test_database(ctx, db, fs, use_sql_server, outcome, failure) ==
    LET done == setup_sample_data(db, fs, use_sql_server, outcome, failure)
    IN  [context |-> SetAttr(ctx, "test_data_setup", done.returns),
         tables |-> done.tables, files |-> done.files]

\* GET /health answers 200: a server that was running before the suite,
\* or a spawned process that is serving.
Serving(procs, server_running) ==
    server_running \/ \E i \in DOMAIN procs : procs[i].state = "healthy"

\* What becomes of a spawned process while start_api_server polls it.
SpawnOutcomes == {"healthy", "never healthy", "exits", "Popen fails"}

max_attempts == 10

\* start_api_server: the context, the processes and the seconds slept.
start_api_server(ctx, procs, server_running, spawn) ==
    IF Serving(procs, server_running)
    THEN [context |-> SetAttr(ctx, "api_server_started", TRUE), processes |-> procs, slept |-> 0]
    ELSE IF spawn = "Popen fails"
    THEN [context |-> SetAttr(ctx, "api_server_started", FALSE), processes |-> procs, slept |-> 0]
    ELSE LET spawned == Append(procs, [state |-> IF spawn = "healthy" THEN "healthy"
                                                 ELSE IF spawn = "exits" THEN "exited"
                                                 ELSE "starting",
                                       calls |-> <<>>])
             tracked == SetAttr(ctx, "api_server_process", {Len(spawned)})
         IN  [context |-> SetAttr(tracked, "api_server_started", spawn = "healthy"),
              processes |-> spawned,
              slept |-> IF spawn = "healthy" THEN 1 ELSE max_attempts]

GracePeriod == 5

\* The seconds a process takes to exit after terminate().
ExitDelays == {1, GracePeriod + 1}

Running(process) == process.state \in {"healthy", "starting"}

\* A stop that kills without waiting for the process to exit.
StoppedAtOnce(process, exit_delay) ==
    IF ~Running(process)
    THEN [process EXCEPT !.calls = @ \o <<"terminate", "wait(timeout=5)">>]
    ELSE [state |-> "killed",
          calls |-> process.calls \o <<"terminate", "wait(timeout=5)", "kill", "wait">>]

\* The calls on the Popen object and the state they leave it in.
Stopped(process, exit_delay) ==
    IF ~Running(process)
    THEN [process EXCEPT !.calls = @ \o <<"terminate", "wait(timeout=5)">>]
    ELSE IF exit_delay <= GracePeriod
    THEN [state |-> "terminated", calls |-> process.calls \o <<"terminate", "wait(timeout=5)">>]
    ELSE [state |-> "killed",
          calls |-> process.calls \o <<"terminate", "wait(timeout=5)", "kill", "wait">>]

\* stop_api_server: the context, the processes and the seconds waited.
stop_api_server(ctx, procs, exit_delay) ==
    IF "api_server_process" \in DOMAIN ctx /\ ctx.api_server_process # {}
    THEN LET i == CHOOSE i \in ctx.api_server_process : TRUE
         IN  [context |-> SetAttr(ctx, "api_server_process", {}),
              processes |-> [procs EXCEPT ![i] = Stopped(procs[i], exit_delay)],
              waited |-> IF ~Running(procs[i]) THEN 0
                         ELSE IF exit_delay <= GracePeriod THEN exit_delay ELSE GracePeriod]
    ELSE [context |-> ctx, processes |-> procs, waited |-> 0]

\* What the environment decides during one hook: whether the database can
\* be connected to and loaded, and what becomes of a spawned server.
HookOutcomes(use_sql_server) ==
    [connect : ConnectOutcomes, load : LoadFailures(use_sql_server), spawn : SpawnOutcomes]

\* before_all: the attributes, the test database, the server.
before_all(ctx, db, fs, procs, env, o) ==
    LET fresh == SetAttr(SetAttr(SetAttr(ctx, "test_data_setup", FALSE),
                                 "api_server_started", FALSE),
                         "api_server_process", {})
        database == setup_test_database(fresh, db, fs, env.USE_SQL_SERVER, o.connect, o.load)
        server == start_api_server(database.context, procs, env.server_running, o.spawn)
    IN  [context |-> server.context, tables |-> database.tables, files |-> database.files,
         processes |-> server.processes, slept |-> server.slept]

Tags == {"database", "api", "ui", "smoke"}

\* before_tag: what a tag needs is set up if it is not yet.
before_tag(ctx, tag, db, fs, procs, env, o) ==
    LET database == setup_test_database(ctx, db, fs, env.USE_SQL_SERVER, o.connect, o.load)
        server == start_api_server(ctx, procs, env.server_running, o.spawn)
        same == [context |-> ctx, tables |-> db, files |-> fs, processes |-> procs, slept |-> 0]
    IN  IF tag = "database" /\ ~Get(ctx, "test_data_setup", FALSE)
        THEN [same EXCEPT !.context = database.context, !.tables = database.tables,
                          !.files = database.files]
        ELSE IF tag \in {"api", "ui"} /\ ~Get(ctx, "api_server_started", FALSE)
        THEN [same EXCEPT !.context = server.context, !.processes = server.processes,
                          !.slept = server.slept]
        ELSE same

\* after_all: stop_api_server; cleanup_database does nothing.
after_all(ctx, procs, exit_delay) == stop_api_server(ctx, procs, exit_delay)

(***************************************************************************)
(* SpecHooks: behave calls before_all, then before_tag for the tags of the *)
(* features and scenarios it runs, then after_all.                         *)
(***************************************************************************)
\* The tags that one run of behave meets.
MaxTags == 2

HooksInit ==
    /\ RunnerIdle
    /\ files = NoFiles
    /\ tables = NoTables
    /\ connection = {}
    /\ SAMPLE_CLIENTS = <<>>
    /\ input \in [server_running : BOOLEAN, USE_SQL_SERVER : BOOLEAN]
    /\ ret = {}
    /\ call = NoCall
    /\ calls = 0
    /\ now = 0

HooksFrame ==
    UNCHANGED <<reports, metadata, launched, connection, SAMPLE_CLIENTS, input, driver, sessions, ret>>

\* The handle that the context tracks: {} when it has none.
Tracked(ctx) == Get(ctx, "api_server_process", {})

BeforeAll ==
    /\ HooksFrame
    /\ context = <<>>
    /\ \E o \in HookOutcomes(input.USE_SQL_SERVER) :
          LET r == before_all(context, tables, files, processes, input, o)
          IN  /\ context' = r.context
              /\ tables' = r.tables
              /\ files' = r.files
              /\ processes' = r.processes
              /\ now' = now + r.slept
              /\ call' = [op |-> "before_all", escaped |-> {}, spawn |-> o.spawn]
    /\ calls' = calls + 1

BeforeTag ==
    /\ HooksFrame
    /\ context # <<>>
    /\ call.op # "after_all"
    /\ calls <= MaxTags
    /\ \E tag \in Tags, o \in HookOutcomes(input.USE_SQL_SERVER) :
          LET r == before_tag(context, tag, tables, files, processes, input, o)
          IN  /\ context' = r.context
              /\ tables' = r.tables
              /\ files' = r.files
              /\ processes' = r.processes
              /\ now' = now + r.slept
              /\ call' = [op |-> "before_tag", escaped |-> {}, tag |-> tag, spawn |-> o.spawn]
    /\ calls' = calls + 1

AfterAll ==
    /\ HooksFrame
    /\ context # <<>>
    /\ call.op # "after_all"
    /\ \E exit_delay \in ExitDelays :
          LET r == after_all(context, processes, exit_delay)
          IN  /\ context' = r.context
              /\ processes' = r.processes
              /\ now' = now + r.waited
              /\ call' = [op |-> "after_all", escaped |-> {}, tracked |-> Tracked(context),
                          exit_delay |-> exit_delay]
    /\ calls' = calls + 1
    /\ UNCHANGED <<tables, files>>

HooksNext == BeforeAll \/ BeforeTag \/ AfterAll

SpecHooks == HooksInit /\ [][HooksNext]_vars

\* The calls that stop_api_server adds to the process it tracks.
StopCalls(process, exit_delay) ==
    <<"terminate", "wait(timeout=5)">>
    \o (IF Running(process) /\ exit_delay > GracePeriod THEN <<"kill", "wait">> ELSE <<>>)

(* C24: stop_api_server first sends terminate to the tracked server        *)
(* process, then waits up to the 5-second grace period, and issues a       *)
(* forced kill only if the process has not exited within it; afterwards    *)
(* the tracked handle is cleared and no other process is touched.  When    *)
(* the hooks spawned no process (a server was already running), it         *)
(* terminates nothing.                                                     *)
C24_TerminateThenKill ==
    [][call'.op = "after_all" =>
          IF Tracked(context) = {} THEN processes' = processes
          ELSE LET i == CHOOSE i \in Tracked(context) : TRUE
               IN  /\ processes' = [processes EXCEPT ![i] =
                          [state |-> IF ~Running(@) THEN @.state
                                     ELSE IF call'.exit_delay > GracePeriod THEN "killed"
                                     ELSE "terminated",
                           calls |-> @.calls \o StopCalls(@, call'.exit_delay)]]
                   /\ Tracked(context') = {}
                   /\ now' - now <= GracePeriod]_vars

\* A tracked server that did not exit within the grace period.
C24_Witness ==
    /\ call.op = "after_all"
    /\ call.tracked # {}
    /\ call.exit_delay > GracePeriod
    /\ \E i \in call.tracked :
          /\ processes[i].state = "killed"
          /\ processes[i].calls = <<"terminate", "wait(timeout=5)", "kill", "wait">>
    /\ context.api_server_process = {}

(* C28: for any sequence of before_all and before_tag hook invocations     *)
(* during a test run, every server process spawned by start_api_server has *)
(* been terminated (terminate, or kill after the grace period) by the time *)
(* after_all returns, a process that never became healthy included.        *)
C28_NoServerLeftRunning ==
    call.op = "after_all" => \A i \in DOMAIN processes : ~Running(processes[i])

(***************************************************************************)
(* gherkin_generator.py: the mock generator and the syntax check.  A str   *)
(* is a string; its characters are its substrings of length 1.            *)
(***************************************************************************)
Char(s, i) == SubSeq(s, i, i)

IsSpace(c) == c \in {" ", "\n", "\t"}

\* str.lower(), of the characters from i to j: one half, then the other.
RECURSIVE LowerOf(_, _, _)
LowerOf(s, i, j) ==
    IF i > j THEN ""
    ELSE IF i = j
    THEN (IF Char(s, i) \in DOMAIN Lowercase THEN Lowercase[Char(s, i)] ELSE Char(s, i))
    ELSE LowerOf(s, i, (i + j) \div 2) \o LowerOf(s, ((i + j) \div 2) + 1, j)

str_lower(s) == LowerOf(s, 1, Len(s))

\* The k-th smallest of a set of positions.
Nth(S, k) == CHOOSE i \in S : Cardinality({j \in S : j < i}) = k - 1

\* str.split(): the runs of characters that are not whitespace.
split(s) ==
    LET starts == {i \in 1..Len(s) : ~IsSpace(Char(s, i)) /\ (i = 1 \/ IsSpace(Char(s, i - 1)))}
        EndOf(i) == CHOOSE j \in i..Len(s) :
                        /\ \A k \in i..j : ~IsSpace(Char(s, k))
                        /\ (j = Len(s) \/ IsSpace(Char(s, j + 1)))
    IN  [k \in 1..Cardinality(starts) |-> SubSeq(s, Nth(starts, k), EndOf(Nth(starts, k)))]

\* str.split('\n')
split_lines(s) ==
    LET breaks == {i \in 1..Len(s) : Char(s, i) = "\n"}
        n == Cardinality(breaks) + 1
    IN  [k \in 1..n |-> SubSeq(s, IF k = 1 THEN 1 ELSE Nth(breaks, k - 1) + 1,
                                  IF k = n THEN Len(s) ELSE Nth(breaks, k) - 1)]

\* str.strip()
strip(s) ==
    LET kept == {i \in 1..Len(s) : ~IsSpace(Char(s, i))}
    IN  IF kept = {} THEN ""
        ELSE SubSeq(s, CHOOSE i \in kept : \A j \in kept : i <= j,
                       CHOOSE i \in kept : \A j \in kept : i >= j)

startswith(s, prefix) == Len(s) >= Len(prefix) /\ SubSeq(s, 1, Len(prefix)) = prefix

\* utils.py, sanitize_filename: each invalid character becomes '_'.
InvalidChars == {"<", ">", ":", "\"", "/", "\\", "|", "?", "*"}

RECURSIVE ReplaceInvalid(_, _, _)
ReplaceInvalid(s, i, j) ==
    IF i > j THEN ""
    ELSE IF i = j THEN (IF Char(s, i) \in InvalidChars THEN "_" ELSE Char(s, i))
    ELSE ReplaceInvalid(s, i, (i + j) \div 2) \o ReplaceInvalid(s, ((i + j) \div 2) + 1, j)

sanitize_filename(filename) == strip(ReplaceInvalid(filename, 1, Len(filename)))

\* GherkinGenerator.mock_templates
mock_templates ==
    [data_validation |-> "Feature: Data Validation\n  As a data analyst\n  I want to validate data quality\n  So that I can ensure data integrity\n\n  Scenario: Validate data count\n    Given I have a source data file\n    When I load the data into the database\n    Then the record count should match the source file\n    And all required fields should be populated\n\n  Scenario: Validate data types\n    Given I have data in the database\n    When I check the data types\n    Then all numeric fields should contain valid numbers\n    And all date fields should contain valid dates",
     api_testing |-> "Feature: API Data Quality\n  As a QA engineer\n  I want to test API data quality\n  So that I can ensure API responses are valid\n\n  Scenario: Validate API response structure\n    Given the API endpoint is available\n    When I make a GET request to the endpoint\n    Then the response should have status code 200\n    And the response should contain required fields\n\n  Scenario: Validate API data ranges\n    Given I receive API response data\n    When I check the numeric values\n    Then all values should be within expected ranges\n    And no null values should be present in required fields",
     ui_testing |-> "Feature: UI Validation\n  As a user\n  I want to verify UI elements display correctly\n  So that I can trust the application interface\n\n  Scenario: Validate revenue display\n    Given I am on the dashboard page\n    When I look for Client A information\n    Then I should see the revenue value displayed\n    And the revenue should be a positive number\n\n  Scenario: Validate page elements\n    Given I am on the application page\n    When the page loads completely\n    Then all required elements should be visible\n    And no error messages should be displayed"]

DataKeywords == {"data", "database", "csv", "feed", "count"}
ApiKeywords == {"api", "endpoint", "response", "json"}
UiKeywords == {"ui", "interface", "page", "revenue", "client"}

\* any(keyword in requirement_lower for keyword in keywords)
AnyIn(keywords, requirement_lower) == \E keyword \in keywords : Contains(keyword, requirement_lower)

\* A choice that tries the API keywords first.
TemplateOfApiFirst(requirement) ==
    LET requirement_lower == str_lower(requirement)
    IN  IF AnyIn(ApiKeywords, requirement_lower)
        THEN [template_key |-> "api_testing", feature_name |-> "api_testing"]
        ELSE IF AnyIn(DataKeywords, requirement_lower)
        THEN [template_key |-> "data_validation", feature_name |-> "data_validation"]
        ELSE IF AnyIn(UiKeywords, requirement_lower)
        THEN [template_key |-> "ui_testing", feature_name |-> "ui_validation"]
        ELSE [template_key |-> "data_validation", feature_name |-> "generic_validation"]

\* The if / elif chain of _mock_bedrock_call.
TemplateOf(requirement) ==
    LET requirement_lower == str_lower(requirement)
    IN  IF AnyIn(DataKeywords, requirement_lower)
        THEN [template_key |-> "data_validation", feature_name |-> "data_validation"]
        ELSE IF AnyIn(ApiKeywords, requirement_lower)
        THEN [template_key |-> "api_testing", feature_name |-> "api_testing"]
        ELSE IF AnyIn(UiKeywords, requirement_lower)
        THEN [template_key |-> "ui_testing", feature_name |-> "ui_validation"]
        ELSE [template_key |-> "data_validation", feature_name |-> "generic_validation"]

RequirementLimit == 100

\* requirement[:100]
Shown(requirement) ==
    SubSeq(requirement, 1, IF Len(requirement) < RequirementLimit THEN Len(requirement) ELSE RequirementLimit)

\* _generate_custom_scenario: {} for None.
generate_custom_scenario(requirement) ==
    LET requirement_words == split(str_lower(requirement))
        Has(word) == \E k \in DOMAIN requirement_words : requirement_words[k] = word
    IN  IF Has("revenue")
        THEN {"  Scenario: Custom revenue validation\n    Given I have the requirement: \"" \o Shown(requirement) \o "\"\n    When I implement the validation logic\n    Then the revenue data should meet the specified criteria\n    And the validation should pass successfully"}
        ELSE IF Has("count") \/ Has("records")
        THEN {"  Scenario: Custom record count validation\n    Given I have the requirement: \"" \o Shown(requirement) \o "\"\n    When I count the records\n    Then the count should match expectations\n    And no data should be missing"}
        ELSE {}

\* The feature file of the features directory.
FeaturePath(feature_filename) == [dir |-> "features", name |-> feature_filename]

\* utils.py, save_text_file: the file is written, or the failure is logged.
save_text_file(fs, content, filepath, io) ==
    IF io = "ok"
    THEN [returns |-> TRUE, files |-> WriteFile(fs, filepath, [parses |-> FALSE, text |-> content])]
    ELSE [returns |-> FALSE, files |-> fs]

\* _mock_bedrock_call: what it returns and the files it leaves.
\* processing_time is in tenths of a second.
mock_bedrock_call(fs, requirement, io, processing_time) ==
    LET chosen == TemplateOf(requirement)
        custom_scenario == generate_custom_scenario(requirement)
        gherkin_content == IF custom_scenario = {} THEN mock_templates[chosen.template_key]
                           ELSE mock_templates[chosen.template_key] \o "\n\n"
                                \o (CHOOSE c \in custom_scenario : TRUE)
        feature_filename == sanitize_filename(chosen.feature_name) \o ".feature"
        saved == save_text_file(fs, gherkin_content, FeaturePath(feature_filename), io)
    IN  [returns |-> [success |-> saved.returns,
                      gherkin_content |-> gherkin_content,
                      feature_filename |-> feature_filename,
                      feature_path |-> FeaturePath(feature_filename),
                      model_used |-> "BEDROCK_MODEL_ID",
                      processing_time |-> processing_time],
         files |-> saved.files]

IsStep(line) ==
    startswith(line, "Given ") \/ startswith(line, "When ") \/ startswith(line, "Then ") \/ startswith(line, "And ")

\* A check that reads the lines without stripping them.
KindUnstripped(line) ==
    IF startswith(line, "Feature:") THEN "Feature"
    ELSE IF startswith(line, "Scenario:") THEN "Scenario"
    ELSE IF IsStep(line) THEN "Step"
    ELSE "other"

\* The branch of the if / elif chain that a line takes, once stripped.
Kind(line) ==
    IF startswith(strip(line), "Feature:") THEN "Feature"
    ELSE IF startswith(strip(line), "Scenario:") THEN "Scenario"
    ELSE IF IsStep(strip(line)) THEN "Step"
    ELSE "other"

\* The loop over the kinds of the lines: an error is the number of a step
\* line read while has_scenario is false, or 0 for the missing Feature
\* declaration.
Validated(kinds) ==
    LET scenarios == {i \in DOMAIN kinds : kinds[i] = "Scenario"}
        outside == {i \in DOMAIN kinds : kinds[i] = "Step" /\ \A j \in scenarios : j > i}
        has_feature == \E i \in DOMAIN kinds : kinds[i] = "Feature"
        errors == [k \in 1..Cardinality(outside) |-> Nth(outside, k)]
                  \o (IF has_feature THEN <<>> ELSE <<0>>)
    IN  [valid |-> Len(errors) = 0,
         errors |-> errors,
         warnings |-> IF scenarios # {} THEN <<>> ELSE <<"No Scenario found">>]

RECURSIVE KindsOf(_, _, _)
KindsOf(lines, i, j) ==
    IF i > j THEN <<>>
    ELSE IF i = j THEN <<Kind(lines[i])>>
    ELSE KindsOf(lines, i, (i + j) \div 2) \o KindsOf(lines, ((i + j) \div 2) + 1, j)

\* validate_gherkin_syntax
validate_gherkin_syntax(gherkin_content) ==
    Validated(KindsOf(split_lines(gherkin_content), 1, Len(split_lines(gherkin_content))))

\* generate_gherkin: MOCK_MODE or not, the mock answers.
generate_gherkin(fs, english_requirement, MOCK_MODE, io, processing_time) ==
    IF MOCK_MODE THEN mock_bedrock_call(fs, english_requirement, io, processing_time)
    ELSE mock_bedrock_call(fs, english_requirement, io, processing_time)

(***************************************************************************)
(* SpecGherkin: a requirement is typed word by word, a feature is          *)
(* generated from it, and a feature text is checked.                       *)
(***************************************************************************)
\* The words of a requirement.
MaxWords == 2

RECURSIVE RepeatStr(_, _)
RepeatStr(c, n) ==
    IF n = 0 THEN "" ELSE IF n = 1 THEN c
    ELSE RepeatStr(c, n \div 2) \o RepeatStr(c, n - (n \div 2))

\* Words with and without keywords, in either case, with a keyword inside
\* them, one that starts with a line break, one longer than what is shown.
Vocabulary ==
    {"Data", "API", "page", "revenue", "count", "records", "Quick", "UI/API",
     "Revenues", "\nGiven", RepeatStr("x", RequirementLimit + 1)}

\* Feature texts written by hand.
HandWritten ==
    {"", "Given a step\nFeature: late", "  Scenario: alone\n    Given a step",
     "Feature: empty", "Feature: f\n  Scenario: s\n    When a step\n    Then a step"}

GherkinInit ==
    /\ RunnerIdle
    /\ files = NoFiles
    /\ tables = NoTables
    /\ connection = {}
    /\ SAMPLE_CLIENTS = <<>>
    /\ input = ""
    /\ ret = {}
    /\ call = NoCall
    /\ calls = 0
    /\ now = 0

GherkinFrame == UNCHANGED <<runner, tables, connection, SAMPLE_CLIENTS>>

AddWord ==
    /\ GherkinFrame
    /\ ret = {}
    /\ Len(split(input)) < MaxWords
    /\ \E word \in Vocabulary : input' = IF input = "" THEN word ELSE input \o " " \o word
    /\ UNCHANGED <<ret, call, calls, now, files>>

\* random: time.sleep(random.uniform(1, 3)) in seconds, then
\* random.uniform(1.5, 2.8) in tenths of a second, at either end.
GenerateGherkin ==
    /\ GherkinFrame
    /\ ret = {}
    /\ \E MOCK_MODE \in BOOLEAN, io \in {"ok", "write fails"}, random \in {<<1, 15>>, <<3, 28>>} :
          LET r == generate_gherkin(files, input, MOCK_MODE, io, random[2])
          IN  /\ ret' = {r.returns}
              /\ files' = r.files
              /\ now' = now + random[1]
              /\ call' = [op |-> "generate_gherkin", escaped |-> {}, requirement |-> input]
    /\ calls' = calls + 1
    /\ UNCHANGED input

\* The text checked is the one just generated, or one written by hand.
ValidateGherkinSyntax ==
    /\ GherkinFrame
    /\ call.op # "validate_gherkin_syntax"
    /\ \/ /\ call.op = "generate_gherkin"
          /\ ret' = {validate_gherkin_syntax(Result.gherkin_content)}
          /\ call' = [op |-> "validate_gherkin_syntax", escaped |-> {}, generated |-> TRUE,
                      requirement |-> input, gherkin_content |-> Result.gherkin_content]
       \/ /\ input = ""
          /\ \E gherkin_content \in HandWritten :
                /\ ret' = {validate_gherkin_syntax(gherkin_content)}
                /\ call' = [op |-> "validate_gherkin_syntax", escaped |-> {}, generated |-> FALSE,
                            requirement |-> input, gherkin_content |-> gherkin_content]
    /\ calls' = calls + 1
    /\ UNCHANGED <<input, files, now>>

GherkinNext == AddWord \/ GenerateGherkin \/ ValidateGherkinSyntax

SpecGherkin == GherkinInit /\ [][GherkinNext]_vars

\* ---- Claims about the mock generator ----

Generated == call.op = "generate_gherkin"

\* The template a generated text starts with.
TemplateUsed(template_key) == startswith(Result.gherkin_content, mock_templates[template_key])

CustomAppended == \A template_key \in DOMAIN mock_templates : Result.gherkin_content # mock_templates[template_key]

WholeWord(requirement) ==
    \E k \in DOMAIN split(str_lower(requirement)) :
        split(str_lower(requirement))[k] \in {"revenue", "count", "records"}

\* C25: the mock generator picks the template by case-insensitive substring
\* match in the order data, API, UI: a data keyword gets the data-validation
\* template even when API or UI keywords also occur, an API keyword beats UI
\* keywords, no keyword gets the data-validation template under the file
\* name generic_validation.feature; the custom scenario block is appended
\* only when 'revenue', 'count' or 'records' is a whole whitespace-separated
\* word of the requirement.
C25_TemplateOrder ==
    Generated =>
        LET requirement_lower == str_lower(call.requirement)
            data == AnyIn(DataKeywords, requirement_lower)
            api == AnyIn(ApiKeywords, requirement_lower)
            ui == AnyIn(UiKeywords, requirement_lower)
        IN  /\ data => TemplateUsed("data_validation") /\ Result.feature_filename = "data_validation.feature"
            /\ ~data /\ api => TemplateUsed("api_testing") /\ Result.feature_filename = "api_testing.feature"
            /\ ~data /\ ~api /\ ui => TemplateUsed("ui_testing") /\ Result.feature_filename = "ui_validation.feature"
            /\ ~data /\ ~api /\ ~ui =>
                  TemplateUsed("data_validation") /\ Result.feature_filename = "generic_validation.feature"
            /\ CustomAppended => WholeWord(call.requirement)

\* A requirement in capitals with a data, an API and a UI keyword, and with
\* 'revenues' but not 'revenue' as a word: the data template alone.
C25_Witness ==
    /\ Generated
    /\ AnyIn(DataKeywords, str_lower(call.requirement))
    /\ ~AnyIn(DataKeywords, call.requirement)
    /\ AnyIn(ApiKeywords, str_lower(call.requirement))
    /\ AnyIn(UiKeywords, str_lower(call.requirement))
    /\ ~WholeWord(call.requirement)
    /\ Result.gherkin_content = mock_templates["data_validation"]

\* C30: every feature text produced by the mock generator, with or without
\* the custom scenario block, is accepted by validate_gherkin_syntax:
\* valid is true and the errors list is empty.
C30_GeneratedIsValid ==
    (call.op = "validate_gherkin_syntax" /\ call.generated) => (Result.valid /\ Result.errors = <<>>)

\* A requirement with a line break before 'Given' that is copied into the
\* custom block, and the text is accepted.
C30_Witness ==
    /\ call.op = "validate_gherkin_syntax"
    /\ call.generated
    /\ WholeWord(call.requirement)
    /\ \E k \in DOMAIN split_lines(call.requirement) : startswith(split_lines(call.requirement)[k], "Given ")
    /\ Result.valid

(***************************************************************************)
(* xray_integration.py: the mocked upload of a Cucumber report to Jira     *)
(* Xray, which counts the scenarios of the report once more.               *)
(***************************************************************************)
\* random.randint(low, high), and random.uniform, at either end.
Random == {"low", "high"}

randint(random, low, high) == IF random = "low" THEN low ELSE high

\* f"{self.project_key}-{random.randint(low, high)}"
IssueKey(prefix, random, low, high) ==
    [project_key |-> "XRAY_PROJECT_KEY", prefix |-> prefix, number |-> randint(random, low, high)]

\* "Check if all steps passed": step.get('result', {}).get('status') != 'passed'
\* ends the loop.
all_steps_passed(element) ==
    \A k \in DOMAIN element.steps :
        /\ element.steps[k].result # {}
        /\ (CHOOSE r \in element.steps[k].result : TRUE).status = "passed"

XrayZero == [total_scenarios |-> 0, passed_scenarios |-> 0, failed_scenarios |-> 0]

\* The loop over one feature's elements.
RECURSIVE XrayElementLoop(_, _)
XrayElementLoop(st, elements) ==
    IF elements = <<>> THEN st
    ELSE LET element == Head(elements)
             next == IF element.type # "scenario" THEN st
                     ELSE IF all_steps_passed(element)
                     THEN [st EXCEPT !.total_scenarios = @ + 1, !.passed_scenarios = @ + 1]
                     ELSE [st EXCEPT !.total_scenarios = @ + 1, !.failed_scenarios = @ + 1]
         IN  XrayElementLoop(next, Tail(elements))

\* The loop over the report's features.
RECURSIVE XrayFeatureLoop(_, _)
XrayFeatureLoop(st, cucumber_data) ==
    IF cucumber_data = <<>> THEN st
    ELSE XrayFeatureLoop(XrayElementLoop(st, Head(cucumber_data).elements), Tail(cucumber_data))

\* "Generate mock test issues"
TestIssues(st, random) ==
    [i \in 1..st.total_scenarios |->
        [key |-> IssueKey("T", random, 100, 999),
         summary |-> i,
         status |-> IF i - 1 < st.passed_scenarios THEN "PASS" ELSE "FAIL"]]

\* f"reports/xray_upload_response_{timestamp}.json"
XrayResponseFile(t) ==
    [prefix |-> "xray_upload_response", feature |-> {},
     timestamp |-> [format |-> "%Y%m%d%H%M", seconds |-> t], ext |-> "json"]

\* _mock_xray_upload: the response, and the reports directory with the
\* response saved in it. t is the time after the sleep.
mock_xray_upload(fs, cucumber_data, random, t, io) ==
    LET st == XrayFeatureLoop(XrayZero, cucumber_data)
        mock_response ==
            [success |-> TRUE,
             test_execution_key |-> {IssueKey("", random, 1000, 9999)},
             test_plan_key |-> {IssueKey("", random, 100, 999)},
             upload_timestamp |-> IsoFormat(t),
             statistics |-> st @@ [success_rate |->
                                       IF st.total_scenarios > 0
                                       THEN Round2(st.passed_scenarios, st.total_scenarios)
                                       ELSE 0],
             test_issues |-> TestIssues(st, random)]
    IN  [returns |-> mock_response,
         files |-> save_json_file(fs, mock_response, XrayResponseFile(t), io)]

\* The except branch of upload_cucumber_results.
UploadError == [success |-> FALSE, error |-> "Exception", test_execution_key |-> {}, test_plan_key |-> {}]

\* upload_cucumber_results: open and json.load raise on a missing or malformed
\* file, the loops raise on a JSON object; _real_xray_upload calls the mock.
upload_cucumber_results(fs, cucumber_json_path, MOCK_MODE, random, t, io) ==
    IF ~PathExists(fs, cucumber_json_path) \/ ~fs[cucumber_json_path].parses
    THEN [returns |-> UploadError, files |-> fs, slept |-> FALSE]
    ELSE IF "list" \notin DOMAIN fs[cucumber_json_path]
    THEN [returns |-> UploadError, files |-> fs, slept |-> TRUE]
    ELSE mock_xray_upload(fs, fs[cucumber_json_path].list, random, t, io) @@ [slept |-> TRUE]

(***************************************************************************)
(* SpecXray: behave writes a report as in SpecParse, and the report the    *)
(* file holds is uploaded.                                                 *)
(***************************************************************************)
\* time.sleep(random.uniform(2, 4)), in seconds.
UploadSeconds(random) == IF random = "low" THEN 2 ELSE 4

UploadCucumberResults ==
    /\ ret = {}
    /\ \E MOCK_MODE \in BOOLEAN, random \in Random, io \in {"ok", "open fails"} :
          LET r == upload_cucumber_results(reports, ParsedFile, MOCK_MODE, random,
                                           now + UploadSeconds(random), io)
          IN  /\ ret' = {r.returns}
              /\ reports' = r.files
              /\ now' = IF r.slept THEN now + UploadSeconds(random) ELSE now
    /\ call' = Called("upload_cucumber_results", {}, {}, {}, {})
    /\ calls' = calls + 1
    /\ UNCHANGED <<metadata, launched, others>>

XrayNext == BehaveFeature \/ BehaveElement \/ BehaveStep \/ UploadCucumberResults

SpecXray == ParseInit /\ [][XrayNext]_vars

\* ---- Claims about the uploader ----

Uploaded == call.op = "upload_cucumber_results" /\ Result.success

\* What the test runner returns for the report that was uploaded.
RunnerStatistics ==
    parse_behave_results(reports, metadata, CompletedProcess(0), ParsedFile,
                         {JunitXmlFile(Strftime(0))}, Strftime(now), {}).statistics

\* C27: for every Cucumber report, the statistics the uploader derives agree
\* with the test runner's for the same report: equal total_scenarios, equal
\* passed_scenarios and success_rate, and passed_scenarios +
\* failed_scenarios = total_scenarios in the uploader's response.
C27_UploaderAgreesWithRunner ==
    Uploaded =>
        /\ Result.statistics.total_scenarios = RunnerStatistics.total_scenarios
        /\ Result.statistics.passed_scenarios = RunnerStatistics.passed_scenarios
        /\ Result.statistics.success_rate = RunnerStatistics.success_rate
        /\ Result.statistics.passed_scenarios + Result.statistics.failed_scenarios
              = Result.statistics.total_scenarios

\* Every scenario that the two count differently has no step.
UploaderAgreesOnScenariosWithSteps ==
    Uploaded =>
        /\ Result.statistics.total_scenarios = RunnerStatistics.total_scenarios
        /\ Result.statistics.passed_scenarios + Result.statistics.failed_scenarios
              = Result.statistics.total_scenarios
        /\ (\A f \in DOMAIN reports[ParsedFile].list :
               \A e \in DOMAIN reports[ParsedFile].list[f].elements :
                   reports[ParsedFile].list[f].elements[e].type = "scenario"
                       => reports[ParsedFile].list[f].elements[e].steps # <<>>)
              => /\ Result.statistics.passed_scenarios = RunnerStatistics.passed_scenarios
                 /\ Result.statistics.success_rate = RunnerStatistics.success_rate

(***************************************************************************)
(* streamlit_app.py: the test execution section of the dashboard. The      *)
(* features directory is `files`; `input` holds st.session_state and the   *)
(* selection of the multiselect.                                           *)
(***************************************************************************)
endswith(s, suffix) == Len(s) >= Len(suffix) /\ SubSeq(s, Len(s) - Len(suffix) + 1, Len(s)) = suffix

\* behave_runner.py, list_available_features: the file names of the features
\* directory that end with '.feature'.
list_available_features(fs) ==
    {p.name : p \in {q \in DOMAIN fs : q.dir = "features" /\ endswith(q.name, ".feature")}}

\* behave_runner.py, the behave_cmd of run_all_features: behave is given the
\* features directory.
behave_cmd == [program |-> "behave", path |-> "features"]

\* What behave runs for a command: every feature file under the directory.
Executed(fs, cmd) ==
    {p.name : p \in {q \in DOMAIN fs : q.dir = cmd.path /\ endswith(q.name, ".feature")}}

\* initialize_session_state, the keys that the test execution uses.
initialize_session_state(api_server_running) ==
    [last_test_results |-> {}, api_server_running |-> api_server_running]

\* The server thread starts, or threading raises.
ThreadOutcomes == {"started", "fails"}

\* streamlit_app.py, start_api_server: the session state it leaves and the
\* seconds it sleeps.
StartServerThread(session_state, thread) ==
    IF session_state.api_server_running
    THEN [session_state |-> session_state, slept |-> 0]
    ELSE IF thread = "started"
    THEN [session_state |-> [session_state EXCEPT !.api_server_running = TRUE], slept |-> 2]
    ELSE [session_state |-> session_state, slept |-> 0]

\* run_behave_tests: with or without a selection, runner.run_all_features();
\* the result goes to the session state.
run_behave_tests(button, selected_features) ==
    \E thread \in ThreadOutcomes :
        LET started == StartServerThread(input.session_state, thread)
        IN  \E e \in RunAllFeatures(now + started.slept) :
                /\ call' = [op |-> "run_behave_tests", escaped |-> e.outcome.raises,
                            button |-> button, selected_features |-> selected_features,
                            ran |-> e.call.subprocess_result # {},
                            executed |-> IF e.call.subprocess_result # {}
                                         THEN Executed(files, behave_cmd) ELSE {}]
                /\ ret' = e.outcome.returns
                /\ input' = [input EXCEPT !.session_state =
                                [started.session_state EXCEPT !.last_test_results = e.outcome.returns]]
                /\ reports' = e.fs
                /\ metadata' = e.m
                /\ launched' = e.l
                /\ now' = e.t
                /\ calls' = calls + 1
                /\ UNCHANGED <<files, tables, connection, SAMPLE_CLIENTS, suite>>

(***************************************************************************)
(* SpecFrontend: a features directory, a selection changed feature by      *)
(* feature, and one press of a button.                                     *)
(***************************************************************************)
DirectoryNames == {"api_testing.feature", "data_validation.feature", "ui_validation.feature", "environment.py"}

Directory(names) ==
    [p \in {FeaturePath(n) : n \in names} |-> [parses |-> FALSE, text |-> "Feature: " \o p.name]]

\* The page as it is first rendered: the first three features are selected.
FrontendInit ==
    /\ RunnerIdle
    /\ \E names \in SUBSET DirectoryNames :
          /\ files = Directory(names)
          /\ \E api_server_running \in BOOLEAN :
                input = [session_state |-> initialize_session_state(api_server_running),
                         selected_features |-> list_available_features(Directory(names))]
    /\ tables = NoTables
    /\ connection = {}
    /\ SAMPLE_CLIENTS = <<>>
    /\ ret = {}
    /\ call = NoCall
    /\ calls = 0
    /\ now = 0

\* st.multiselect: a feature is added to the selection or taken from it.
Multiselect ==
    /\ ret = {}
    /\ \E f \in list_available_features(files) :
          input' = [input EXCEPT !.selected_features = IF f \in @ THEN @ \ {f} ELSE @ \cup {f}]
    /\ UNCHANGED <<reports, metadata, ret, call, calls, launched, now, files, tables, connection,
                   SAMPLE_CLIENTS, suite>>

\* The button "Run Selected Tests": a warning when nothing is selected.
RunSelectedTests ==
    /\ ret = {}
    /\ list_available_features(files) # {}
    /\ input.selected_features # {}
    /\ run_behave_tests("Run Selected Tests", input.selected_features)

\* The button "Run All Tests": run_behave_tests().
RunAllTests ==
    /\ ret = {}
    /\ list_available_features(files) # {}
    /\ run_behave_tests("Run All Tests", {})

FrontendNext == Multiselect \/ RunSelectedTests \/ RunAllTests

SpecFrontend == FrontendInit /\ [][FrontendNext]_vars

\* ---- Claims about the frontend ----

\* A button was pressed and behave ran.
Pressed(button) == call.op = "run_behave_tests" /\ call.button = button /\ call.ran

\* C26: pressing 'Run Selected Tests' with a non-empty selection executes
\* exactly the selected feature files and no others; 'Run All Tests'
\* executes every feature file.
C26_RunsExactlyTheSelection ==
    /\ Pressed("Run Selected Tests") => call.executed = call.selected_features
    /\ Pressed("Run All Tests") => call.executed = list_available_features(files)

\* Either button executes every feature file, and the result is kept in the
\* session state.
EitherButtonRunsAll ==
    (call.op = "run_behave_tests" /\ call.ran) =>
        /\ call.executed = list_available_features(files)
        /\ input.session_state.last_test_results = ret

====
